---------------------------- MODULE Spec2Model ----------------------------
(***************************************************************************)
(* A model of the ShackMate RS-BA1 client (src/sm-control.py): the three   *)
(* UDP stream endpoints (control, serial, audio), their type-0 and type-7  *)
(* packet handlers, and the control session that logs in, authenticates    *)
(* and requests the serial and audio streams.                              *)
(*                                                                         *)
(* Frames are sequences of bytes (0..255), built and parsed at the offsets *)
(* the source uses.  A Python offset o is index o+1 of the sequence.       *)
(***************************************************************************)
EXTENDS Integers, Sequences, FiniteSets, TLC

(***************************************************************************)
(* Byte strings: struct.pack / struct.unpack and slices                    *)
(***************************************************************************)

\* struct.pack('<H', v)
LE16(v) == << v % 256, (v \div 256) % 256 >>

\* struct.pack('>H', v)
BE16(v) == << (v \div 256) % 256, v % 256 >>

\* struct.pack('<I', v)
LE32(v) == << v % 256, (v \div 256) % 256, (v \div 65536) % 256, (v \div 16777216) % 256 >>

\* struct.pack('>I', v)
BE32(v) == << (v \div 16777216) % 256, (v \div 65536) % 256, (v \div 256) % 256, v % 256 >>

\* struct.unpack('<H', b)[0]
UnLE16(b) == b[1] + 256 * b[2]

\* struct.unpack('>I', b)[0]
UnBE32(b) == ((b[1] * 256 + b[2]) * 256 + b[3]) * 256 + b[4]

\* bytearray(n)
Zeros(n) == [i \in 1..n |-> 0]

Min(a, b) == IF a < b THEN a ELSE b

\* b[lo:hi] of Python (0 <= lo <= hi): clamped to the length of b
Slice(b, lo, hi) == SubSeq(b, Min(lo, Len(b)) + 1, Min(hi, Len(b)))

\* b[lo:] of Python
SliceFrom(b, lo) == Slice(b, lo, Len(b))

\* struct.pack_into(fmt, b, off, ...) with the packed bytes given, which fit
\* into b at off: b keeps its length
PackInto(b, off, bytes) ==
    SubSeq(b, 1, off) \o bytes \o SubSeq(b, off + Len(bytes) + 1, Len(b))

\* b[lo:hi] = bytes of a bytearray: the slice is replaced, so b changes its
\* length when bytes is not hi-lo long
SetSlice(b, lo, hi, bytes) == Slice(b, 0, lo) \o bytes \o SliceFrom(b, Min(hi, Len(b)))

\* b[off] = v
SetByte(b, off, v) == [b EXCEPT ![off + 1] = v]

\* b[:len(p)] == p
HasPrefix(b, p) == Len(b) >= Len(p) /\ SubSeq(b, 1, Len(p)) = p

(***************************************************************************)
(* Program constants                                                       *)
(***************************************************************************)

CONTROL_STREAM_PORT == 50001
SERIAL_STREAM_PORT == 50002
AUDIO_STREAM_PORT == 50003

\* range(max_retries) of StreamCommon.start
max_retries == 5

\* 0xFFFF + 1: the modulus of the 16-bit sequence counters
SeqMod == 65536

\* W6EL passcode table, keys 32..126 (entry p is at index p - 31)
PASSCODE_SEQUENCE ==
    << 71, 93, 76, 66, 102, 32, 35, 70,
       78, 87, 69, 61, 103, 118, 96, 65,
       98, 57, 89, 45, 104, 126, 124, 101,
       125, 73, 41, 114, 115, 120, 33, 110,
       90, 94, 74, 62, 113, 44, 42, 84,
       60, 58, 99, 79, 67, 117, 39, 121,
       91, 53, 112, 72, 107, 86, 111, 52,
       50, 108, 48, 97, 109, 123, 47, 75,
       100, 56, 43, 46, 80, 64, 63, 85,
       51, 55, 37, 119, 36, 38, 116, 106,
       40, 83, 77, 105, 34, 92, 68, 49,
       54, 88, 59, 122, 81, 95, 82 >>

\* PASSCODE_SEQUENCE.get(p, 0)
PasscodeGet(p) == IF p >= 32 /\ p <= 126 THEN PASSCODE_SEQUENCE[p - 31] ELSE 0

\* passcode with the sum of code point and index looked up as it is
passcodeNoWrap(s) ==
    [j \in 1..16 |-> IF j <= Len(s) THEN PasscodeGet(s[j] + (j - 1)) ELSE 0]

\* passcode(s): s is the sequence of the code points of the string
passcode(s) ==
    [j \in 1..16 |->
        IF j <= Len(s)
        THEN LET i == j - 1
                 p0 == s[j] + i
                 p == IF p0 > 126 THEN 32 + (p0 % 127) ELSE p0
             IN PasscodeGet(p)
        ELSE 0]

\* "admin" and "adminadmin": the defaults of ShackMate.__init__
Username == << 97, 100, 109, 105, 110 >>
Password == << 97, 100, 109, 105, 110, 97, 100, 109, 105, 110 >>

\* b'icom-pc\x00' + b'\x00' * 8
DeviceName == << 105, 99, 111, 109, 45, 112, 99, 0 >> \o Zeros(8)

(***************************************************************************)
(* Frames the client builds                                                *)
(***************************************************************************)

\* StreamCommon._send_pkt3: the connection request
Pkt3(local_sid, remote_sid) ==
    PackInto(PackInto(PackInto(PackInto(PackInto(Zeros(16),
        0, LE32(16)), 4, LE16(3)), 6, LE16(0)), 8, BE32(local_sid)), 12, BE32(remote_sid))

\* StreamCommon._send_pkt6: the ready signal
Pkt6(local_sid, remote_sid) ==
    PackInto(PackInto(PackInto(PackInto(PackInto(Zeros(16),
        0, LE32(16)), 4, LE16(6)), 6, LE16(1)), 8, BE32(local_sid)), 12, BE32(remote_sid))

\* StreamCommon.send_disconnect: '<IHHH' packs 0x10, 0, 0, 5 at offsets 0, 4, 6
\* and 8; '>II' at offset 8 then overwrites the 5
DisconnectPkt(local_sid, remote_sid) ==
    PackInto(PackInto(Zeros(16),
        0, LE32(16) \o LE16(0) \o LE16(0) \o LE16(5)),
        8, BE32(local_sid) \o BE32(remote_sid))

\* Pkt0Handler._send_idle, the packet before it is sent or tracked
IdlePkt(local_sid, remote_sid, tracked, seq_if_untracked) ==
    LET p0 == PackInto(Zeros(16), 0, LE32(16) \o LE16(0) \o LE16(0) \o LE16(0))
        p1 == IF ~tracked THEN PackInto(p0, 6, LE16(seq_if_untracked)) ELSE p0
    IN PackInto(p1, 8, BE32(local_sid) \o BE32(remote_sid))

\* Pkt7Handler._send_reply
Pkt7ReplyPkt(local_sid, remote_sid, reply_id, seq) ==
    LET p0 == SetByte(Zeros(21), 0, 21)
        p1 == SetSlice(p0, 4, 6, LE16(7))
        p2 == SetSlice(p1, 6, 8, LE16(seq))
        p3 == SetSlice(p2, 8, 12, BE32(local_sid))
        p4 == SetSlice(p3, 12, 16, BE32(remote_sid))
        p5 == SetByte(p4, 16, 1)
    IN SetSlice(p5, 17, 21, reply_id)

\* Pkt7Handler._send: the reply id of a probe
ProbeReplyId(rnd, inner_send_seq) ==
    << rnd, inner_send_seq % 256, (inner_send_seq \div 256) % 256, 6 >>

\* Pkt7Handler._send: the probe
Pkt7ProbePkt(local_sid, remote_sid, reply_id, send_seq) ==
    LET p0 == SetByte(Zeros(21), 0, 21)
        p1 == SetSlice(p0, 4, 6, LE16(7))
        p2 == SetSlice(p1, 6, 8, LE16(send_seq))
        p3 == SetSlice(p2, 8, 12, BE32(local_sid))
        p4 == SetSlice(p3, 12, 16, BE32(remote_sid))
        p5 == SetByte(p4, 16, 0)
    IN SetSlice(p5, 17, 21, reply_id)

\* ControlStream._send_pkt_login, the packet handed to send_tracked_packet
LoginPkt(local_sid, remote_sid, inner_seq, auth_start_id) ==
    LET p0 == PackInto(Zeros(128), 0, LE32(128))
        p1 == PackInto(p0, 8, BE32(local_sid) \o BE32(remote_sid))
        p2 == SetSlice(p1, 16, 20, << 0, 0, 0, 112 >>)
        p3 == SetByte(p2, 20, 1)
        p4 == PackInto(p3, 23, LE16(inner_seq))
        p5 == SetSlice(p4, 25, 27, BE16(auth_start_id))
        p6 == SetSlice(p5, 64, 80, passcode(Username))
        p7 == SetSlice(p6, 80, 96, passcode(Password))
    IN SetSlice(p7, 96, 112, DeviceName)

\* ControlStream._send_pkt_auth, the packet handed to send_tracked_packet
AuthPkt(local_sid, remote_sid, inner_seq, magic, auth_id) ==
    LET p0 == PackInto(Zeros(64), 0, LE32(64))
        p1 == PackInto(p0, 8, BE32(local_sid) \o BE32(remote_sid))
        p2 == SetSlice(p1, 16, 20, << 0, 0, 0, 48 >>)
        p3 == SetByte(p2, 20, 1)
        p4 == SetByte(p3, 21, magic)
        p5 == PackInto(p4, 23, LE16(inner_seq))
    IN SetSlice(p5, 25, 31, auth_id)

\* ControlStream._send_request_serial_and_audio, the packet handed to
\* send_tracked_packet
SerialAudioReqPkt(local_sid, remote_sid, inner_seq, auth_id, a8_reply_id) ==
    LET p0 == PackInto(Zeros(144), 0, LE32(144))
        p1 == PackInto(p0, 8, BE32(local_sid) \o BE32(remote_sid))
        p2 == SetSlice(p1, 16, 20, << 0, 0, 0, 128 >>)
        p3 == SetByte(p2, 20, 1)
        p4 == SetByte(p3, 21, 3)
        p5 == PackInto(p4, 23, LE16(inner_seq))
        p6 == SetSlice(p5, 25, 31, auth_id)
        p7 == SetSlice(p6, 31, 47, a8_reply_id)
        p8 == PackInto(p7, 80, BE16(SERIAL_STREAM_PORT) \o BE16(AUDIO_STREAM_PORT))
        p9 == SetSlice(p8, 96, 112, passcode(Username))
    IN SetByte(SetByte(SetByte(SetByte(p9, 112, 1), 113, 1), 114, 4), 115, 4)

\* An envelope whose send_seq at offset 19 is packed big-endian
CivPktBigEndianSeq(local_sid, remote_sid, send_seq, command) ==
    LET data_len == Len(command)
        p0 == SetByte(Zeros(21 + data_len), 0, 21 + data_len)
        p1 == PackInto(p0, 8, BE32(local_sid) \o BE32(remote_sid))
        p2 == SetByte(p1, 16, 193)
        p3 == SetByte(p2, 17, data_len)
        p4 == PackInto(p3, 19, BE16(send_seq))
    IN SetSlice(p4, 21, 21 + data_len, command)

\* SerialStream.send_civ_command, the packet handed to send_tracked_packet
CivPkt(local_sid, remote_sid, send_seq, command) ==
    LET data_len == Len(command)
        p0 == SetByte(Zeros(21 + data_len), 0, 21 + data_len)
        p1 == PackInto(p0, 8, BE32(local_sid) \o BE32(remote_sid))
        p2 == SetByte(p1, 16, 193)
        p3 == SetByte(p2, 17, data_len)
        p4 == PackInto(p3, 19, LE16(send_seq))
    IN SetSlice(p4, 21, 21 + data_len, command)

(***************************************************************************)
(* Frames the radio sends.  Every frame of the radio carries the radio's   *)
(* session id at offsets 8..12 and the client's at 12..16.                 *)
(***************************************************************************)

\* The radio's session id (below 2^31)
PeerSid == 565363668

\* A 16-byte control frame of the radio: length 16, type, sequence, session ids
PeerCtrl(type, seq, local_sid) ==
    LE32(16) \o LE16(type) \o LE16(seq) \o BE32(PeerSid) \o BE32(local_sid)

\* The connection answer awaited by StreamCommon._wait_for_pkt4_answer
PeerPkt4(local_sid) == PeerCtrl(4, 0, local_sid)

\* The ready answer awaited by StreamCommon._wait_for_pkt6_answer
PeerPkt6(local_sid) == PeerCtrl(6, 1, local_sid)

\* An idle frame of the radio (Pkt0Handler.is_idle_pkt0)
PeerIdle(local_sid) == PeerCtrl(0, 0, local_sid)

\* A single-sequence retransmit request, read by Pkt0Handler.handle
PeerRetransmitReq(local_sid, seq) == PeerCtrl(1, seq, local_sid)

\* A datagram shorter than any frame
PeerShort == << 16, 0, 0, 0 >>

\* A type-7 frame of the radio, read by Pkt7Handler.handle: flag 0 is a
\* request, flag 1 a reply
PeerPkt7(local_sid, seq, flag, id) ==
    LE32(21) \o LE16(7) \o LE16(seq) \o BE32(PeerSid) \o BE32(local_sid) \o << flag >> \o id

\* The auth id and the a8 reply id the radio hands out
PeerAuthId == << 1, 2, 3, 4, 5, 6 >>
PeerA8ReplyId == [i \in 1..16 |-> 160 + i]

\* The 96-byte login answer read by ControlStream.init; bad marks the
\* credentials as refused (ff ff ff fe at 48..52)
PeerLoginAnswer(local_sid, bad) ==
    LET p0 == PackInto(Zeros(96), 0, LE32(96) \o LE16(0) \o LE16(1) \o BE32(PeerSid) \o BE32(local_sid))
        p1 == PackInto(p0, 26, PeerAuthId)
    IN IF bad THEN PackInto(p1, 48, << 255, 255, 255, 254 >>) ELSE p1

\* The 64-byte auth answer read by ControlStream._handle_read
PeerAuthAnswer(local_sid, magic) ==
    LET p0 == PackInto(Zeros(64), 0, LE32(64) \o LE16(0) \o LE16(2) \o BE32(PeerSid) \o BE32(local_sid))
    IN PackInto(PackInto(p0, 21, << magic >>), 26, PeerAuthId)

\* The 80-byte a8 answer read by ControlStream._handle_read
PeerA8Answer(local_sid) ==
    LET p0 == PackInto(Zeros(80), 0, LE32(80) \o LE16(0) \o LE16(3) \o BE32(PeerSid) \o BE32(local_sid))
    IN PackInto(p0, 32, PeerA8ReplyId)

\* "IC-9700"
RadioName == << 73, 67, 45, 57, 55, 48, 48 >>

\* The 144-byte serial/audio answer read by ControlStream._handle_read;
\* result is its byte 96
PeerProvAnswer(local_sid, result) ==
    LET p0 == PackInto(Zeros(144), 0, LE32(144) \o LE16(0) \o LE16(4) \o BE32(PeerSid) \o BE32(local_sid))
    IN PackInto(PackInto(p0, 64, RadioName), 96, << result >>)

\* The CI-V answer of the radio, FE FE E0 A2 FB FD, in the envelope
\* send_civ_command uses: the length at offset 0, c1 at 16, the length of the
\* payload at 17, a sequence number at 19 and the payload from offset 21 on
PeerCivAnswer == << 254, 254, 224, 162, 251, 253 >>
PeerCivPkt(local_sid) ==
    LE32(21 + Len(PeerCivAnswer)) \o LE16(0) \o LE16(1) \o BE32(PeerSid) \o BE32(local_sid)
        \o << 193, Len(PeerCivAnswer), 0 >> \o LE16(1) \o PeerCivAnswer

\* The answer of a radio whose name ends in a Latin-1 letter: the byte e9
\* follows the name
PeerProvAnswerLatin1(local_sid) ==
    PackInto(PeerProvAnswer(local_sid, 1), 64 + Len(RadioName), << 233 >>)

(***************************************************************************)
(* Bounds of the model                                                     *)
(***************************************************************************)

\* ControlStream.init as a whole: datagrams of the radio on the control
\* endpoint other than the answer a waiting call expects, and receive
\* timeouts that expire
MaxInitPeerFrames == 2
MaxInitTimeouts == 1

\* ControlStream.init while the radio is silent: receive timeouts that expire
MaxSilentTimeouts == 5

\* One StreamCommon.start: unexpected datagrams on the started endpoint,
\* expiring timeouts
MaxStartPeerFrames == 2
MaxStartTimeouts == 5

\* The session after init: datagrams of the radio on the control endpoint,
\* reauth intervals that pass
MaxSessionPeerFrames == 3
MaxReauth == 1

\* The serial and audio streams opened again from the main loop: datagrams
\* of the radio on the control endpoint, expiring timeouts
MaxReinitPeerFrames == 1
MaxReinitTimeouts == 5

\* The caller: its CI-V commands, pings that fall due meanwhile, and
\* datagrams of the radio on the serial and on the audio endpoint
MaxCiv == 3
MaxProbes == 1
MaxCallerPeerFrames == 1
MaxShutdownPeerFrames == 1

\* The session with a radio that stops answering: pings that fall due, and
\* datagrams of the radio on the control endpoint
MaxLostProbes == 3
MaxLostPeerFrames == 1

\* The longest CI-V command a caller sends
MaxCivLen == 232

\* Strings for passcode(): all strings up to this length, and the longest one
MaxShortLen == 2
MaxPasscodeLen == 20

\* Public calls made on one ICOMIC9700Controller
MaxIcomCalls == 3

(***************************************************************************)
(* State                                                                   *)
(***************************************************************************)

Endpoints == {"control", "serial", "audio"}

VARIABLES
    stream,          \* per endpoint: the fields of StreamCommon
    pkt0,            \* per endpoint: the fields of its Pkt0Handler
    pkt7,            \* per endpoint: the fields of its Pkt7Handler
    ctl,             \* the fields of ControlStream
    serial_send_seq, \* SerialStream.send_seq
    wire,            \* per endpoint: the datagrams sent on its socket, in order
    pc,              \* where each task is
    start,           \* per endpoint: where StreamCommon.start is, and its attempt
    pending,         \* per task: the tracked packet whose UDP send has not completed
    earlier,         \* what was sent before the modelled window: the CI-V
                     \* commands of the caller (civ), the periodic auth
                     \* packets of the reauth loop (reauth)
    left,            \* what the environment may still do in this behaviour:
                     \* unexpected datagrams per endpoint (peer), expiring
                     \* timeouts, pings falling due (probes), reauth intervals
                     \* passing (reauth), CI-V commands of the caller (civ),
                     \* interrupt signals (signal)
    icom,            \* the fields of an ICOMIC9700Controller, the datagrams it
                     \* sent and where its current call is
    call             \* the application of a pure function: its name, its
                     \* argument and, once applied, its result

vars == << stream, pkt0, pkt7, ctl, serial_send_seq, wire, pc, start, pending,
           earlier, icom, call, left >>

\* No datagram / no packet: b'' and an attribute not yet set
NoFrame == << >>

\* StreamCommon.__init__
NewStream ==
    [ conn |-> "none", local_sid |-> 0, remote_sid |-> 0, got_remote_sid |-> FALSE,
      read_chan |-> << >>, readers |-> 0, running |-> FALSE, last_received |-> NoFrame,
      sockets |-> 0 ]

\* Pkt0Handler.__init__
NewPkt0 == [ send_seq |-> 1, tx_seq_buf |-> [k \in {} |-> NoFrame] ]

\* Pkt7Handler.__init__
NewPkt7 == [ send_seq |-> 2, inner_send_seq |-> 33540, send_task |-> "none", running |-> FALSE ]

\* ControlStream.__init__
NewCtl ==
    [ auth_inner_send_seq |-> 0, auth_id |-> Zeros(6), got_auth_id |-> FALSE,
      auth_ok |-> FALSE, a8_reply_id |-> Zeros(16), got_a8_reply_id |-> FALSE,
      serial_and_audio_stream_opened |-> FALSE, deinitializing |-> FALSE,
      running |-> FALSE ]

\* The tasks that make tracked sends, and the endpoint each sends on.  "init"
\* is the task of ShackMate.run: it runs ControlStream.init and, in the end,
\* ControlStream.deinit
Tasks == {"init", "main", "reauth", "caller"}
TaskEndpoint(t) == IF t = "caller" THEN "serial" ELSE "control"

\* pc also tells, under "run", which way ShackMate.run leaves its try
\* statement, and under "signal" whether the signal handler that run installs
\* has been called
Procs == Tasks \cup {"run", "signal"}

(***************************************************************************)
(* ICOMIC9700Controller (icom_ic9700.py): values and pure functions        *)
(***************************************************************************)

\* A Python int as the pair << v \div 100000, v % 100000 >>, so that values
\* up to 10^10 and beyond are computed exactly
BigInt(hi, lo) == << hi, lo >>

\* value % 10
BigMod10(value) == value[2] % 10

\* value // 10
BigDiv10(value) == << value[1] \div 10, ((value[1] % 10) * 10000) + (value[2] \div 10) >>

\* result * 100 + x, for 0 <= x < 100000
BigMul100Add(result, x) ==
    LET lo == (result[2] * 100) + x
    IN << (result[1] * 100) + (lo \div 100000), lo % 100000 >>

\* _int_to_bcd with the two digits of a byte in the other order
RECURSIVE IntToBcdSwapped(_, _)
IntToBcdSwapped(value, length) ==
    IF length = 0 THEN << >>
    ELSE LET digit1 == BigMod10(value)
             value1 == BigDiv10(value)
             digit2 == BigMod10(value1)
             value2 == BigDiv10(value1)
         IN << (digit1 * 16) + digit2 >> \o IntToBcdSwapped(value2, length - 1)

\* ICOMIC9700Controller._int_to_bcd(value, length)
RECURSIVE _int_to_bcd(_, _)
_int_to_bcd(value, length) ==
    IF length = 0 THEN << >>
    ELSE LET digit1 == BigMod10(value)
             value1 == BigDiv10(value)
             digit2 == BigMod10(value1)
             value2 == BigDiv10(value1)
         IN << (digit2 * 16) + digit1 >> \o _int_to_bcd(value2, length - 1)

\* The loop of _bcd_to_int over reversed(bcd_bytes): the bytes i, i-1, .., 1
RECURSIVE BcdLoop(_, _, _)
BcdLoop(bcd_bytes, i, result) ==
    IF i = 0 THEN result
    ELSE BcdLoop(bcd_bytes, i - 1,
                 BigMul100Add(result, (bcd_bytes[i] \div 16) * 10 + (bcd_bytes[i] % 16)))

\* ICOMIC9700Controller._bcd_to_int(bcd_bytes)
_bcd_to_int(bcd_bytes) == BcdLoop(bcd_bytes, Len(bcd_bytes), BigInt(0, 0))

\* CI-V command bytes and addresses of the controller class
CMD_READ_FREQ == 37
CMD_SET_FREQ == 0
RADIO_ADDRESS == 162
CONTROLLER_ADDRESS == 224

\* _build_login_message: length 16, command type 4, the captured session id
_build_login_message ==
    << 16, 0, 0, 0 >> \o << 4, 0, 0, 0 >> \o << 219, 91, 40, 188, 47, 201, 254, 15 >>

\* _build_connect_message
_build_connect_message == << 0, 2 >> \o << 0, 0, 0, 0 >>

\* b'ARE-YOU-READY?' and b'I-AM-READY'
AreYouReady == << 65, 82, 69, 45, 89, 79, 85, 45, 82, 69, 65, 68, 89, 63 >>
IAmReady == << 73, 45, 65, 77, 45, 82, 69, 65, 68, 89 >>

\* _build_ready_query
_build_ready_query == << 0, 3 >> \o AreYouReady

\* _build_civ_command(command, data): FE FE radio controller command data FD
\* behind 00 06 and the big-endian length
_build_civ_command(command, data) ==
    LET civ_packet == << 254, 254, RADIO_ADDRESS, CONTROLLER_ADDRESS, command >>
                          \o data \o << 253 >>
    IN << 0, 6 >> \o BE16(Len(civ_packet)) \o civ_packet

\* int.from_bytes(b, 'little') of four bytes whose value fits the model's
\* integers; -1 stands for any larger value (none of them is 1 or 6)
FromLE32(b) == IF b[4] >= 128 THEN -1
               ELSE b[1] + (256 * b[2]) + (65536 * b[3]) + (16777216 * b[4])

\* _validate_login_response: the code before the first return statements
_validate_login_response(response) ==
    IF Len(response) < 16 THEN FALSE
    ELSE LET command_type == FromLE32(Slice(response, 4, 8))
         IN command_type \in {1, 6}

\* _validate_connect_response
_validate_connect_response(response) ==
    IF Len(response) >= 4
    THEN Slice(response, 0, 2) = << 0, 2 >> /\ response[3] = 0
    ELSE FALSE

\* needle in haystack, for bytes
Contains(haystack, needle) ==
    \E k \in 0..(Len(haystack) - Len(needle)) :
        Slice(haystack, k, k + Len(needle)) = needle

\* _validate_ready_response
_validate_ready_response(response) ==
    IF Len(response) >= 10 THEN Contains(response, IAmReady) ELSE FALSE

\* None, where the code returns Optional[bytes]
None == << -1 >>

\* _send_civ_command, from the received datagram to the returned value
CivResponseData(response) ==
    IF Len(response) >= 6 /\ Slice(response, 0, 2) = << 0, 6 >>
    THEN LET payload_length == (response[3] * 256) + response[4]
             civ_response == Slice(response, 4, 4 + payload_length)
         IN IF Len(civ_response) >= 6 /\ Slice(civ_response, 0, 2) = << 254, 254 >>
            THEN Slice(civ_response, 5, Len(civ_response) - 1)
            ELSE None
    ELSE None

\* The state after ICOMIC9700Controller.__init__; sent, pc, last and calls
\* are the datagrams handed to sendto in order, where connect() is, the
\* last public call with its argument, the radio's answer and the returned
\* value, and the number of public calls still to be made
NewControllerWith(calls) ==
    [ control_socket |-> "none", serial_socket |-> "none", audio_socket |-> "none",
      _connection_state |-> "disconnected",
      status |-> [ frequency |-> BigInt(0, 0), connected |-> FALSE,
                   connection_state |-> "disconnected" ],
      sent |-> << >>,
      pc |-> "idle",
      last |-> [ op |-> "none", arg |-> BigInt(0, 0), reply |-> "none",
                 data |-> << >>, ret |-> "none" ],
      calls |-> calls ]

\* A controller that no behaviour of the stream client uses
NewController == NewControllerWith(0)

\* No pure function is being applied
NoCall == [ fn |-> "none", arg |-> << >>, bcd |-> << >>, ret |-> << >>, pc |-> "none" ]

\* Nothing was sent before the modelled window
NoEarlier == [civ |-> 0, reauth |-> 0]

\* What the environment does in one behaviour of ControlStream.init: the
\* radio sends unexpected datagrams on the control endpoint; or the radio
\* stays silent for long; or a timeout expires, a ping falls due and the
\* user interrupts the program; or a caller sends CI-V commands meanwhile
InitBudgets ==
    { [ peer |-> [e \in Endpoints |-> IF e = "control" THEN MaxInitPeerFrames ELSE 0],
        timeouts |-> 0, probes |-> 0, reauth |-> 0, civ |-> 0, signal |-> 0, rare |-> TRUE ],
      [ peer |-> [e \in Endpoints |-> 0],
        timeouts |-> MaxSilentTimeouts, probes |-> 0, reauth |-> 0, civ |-> 0,
        signal |-> 0, rare |-> TRUE ],
      [ peer |-> [e \in Endpoints |-> 0],
        timeouts |-> MaxInitTimeouts, probes |-> MaxProbes, reauth |-> 0, civ |-> 0,
        signal |-> 1, rare |-> TRUE ],
      [ peer |-> [e \in Endpoints |-> 0],
        timeouts |-> 0, probes |-> 0, reauth |-> 0, civ |-> MaxCiv, signal |-> 0, rare |-> TRUE ] }

\* The state after ControlStream.__init__ (ShackMate.run, before init())
StreamsConstructed ==
    /\ stream = [e \in Endpoints |-> NewStream]
    /\ pkt0 = [e \in Endpoints |-> NewPkt0]
    /\ pkt7 = [e \in Endpoints |-> NewPkt7]
    /\ ctl = NewCtl
    /\ serial_send_seq = 1
    /\ wire = [e \in Endpoints |-> << >>]
    /\ pc = [t \in Procs |-> CASE t = "init" -> "sockets"
                               [] t = "caller" -> "idle"
                               [] t = "run" -> "try"
                               [] OTHER -> "none"]
    /\ start = [e \in Endpoints |-> [pc |-> "idle", attempt |-> 0]]
    /\ pending = [t \in Tasks |-> NoFrame]
    /\ earlier = NoEarlier

\* The stream client constructed; no controller of icom_ic9700 in use
Constructed ==
    /\ StreamsConstructed
    /\ icom = NewController
    /\ call = NoCall

Init == Constructed /\ left \in InitBudgets

(***************************************************************************)
(* The environment: what the radio may send, and when a wait times out     *)
(***************************************************************************)

\* The sequence numbers the radio asks to have retransmitted: the last one
\* whose send completed and the one after it
RetransmitSeqs(e) == { (pkt0[e].send_seq + SeqMod - 1) % SeqMod, pkt0[e].send_seq }

\* The reply id and the sequence of the radio's type-7 frames
PeerPingId == << 120, 64, 246, 2 >>
PeerPingSeq == 9

\* What the radio may send on e, besides the awaited answers, while
\* ControlStream.init runs
InitMenu(e) ==
    LET l == stream[e].local_sid IN
    { PeerPkt4(l), PeerPkt6(l), PeerIdle(l), PeerShort }

\* The radio's rarer datagrams once ControlStream.init has returned: the
\* reply to a ping, a provisioning answer that reports failure, and one whose
\* device name is not UTF-8
RareMenu(e) ==
    LET l == stream[e].local_sid IN
    { PeerPkt7(l, PeerPingSeq, 1, PeerPingId) }
    \cup (IF e = "control"
          THEN { PeerProvAnswer(l, 0), PeerProvAnswerLatin1(l) }
          ELSE {})

\* What the radio may send on e, besides the awaited answers, once
\* ControlStream.init has returned; left.rare tells whether the rarer
\* datagrams belong to the behaviour
SessionMenu(e) ==
    LET l == stream[e].local_sid IN
    { PeerPkt7(l, PeerPingSeq, 0, PeerPingId) }
    \cup { PeerRetransmitReq(l, q) : q \in RetransmitSeqs(e) }
    \cup (IF e = "control"
          THEN { PeerAuthAnswer(l, 5), PeerA8Answer(l), PeerProvAnswer(l, 1) }
          ELSE IF e = "serial" THEN { PeerCivPkt(l) }
          ELSE {})
    \cup (IF left.rare THEN RareMenu(e) ELSE {})

\* The answer the call now waiting on e expects
Awaited(e) ==
    LET l == stream[e].local_sid IN
    CASE start[e].pc = "wait4" -> { PeerPkt4(l) }
      [] start[e].pc = "wait6" -> { PeerPkt6(l) }
      [] e = "control" /\ pc["init"] = "expect_login" ->
            { PeerLoginAnswer(l, FALSE), PeerLoginAnswer(l, TRUE) }
      [] OTHER -> {}

\* The datagrams the radio may send on e now
PeerMenu(e) ==
    Awaited(e) \cup (IF pc["init"] = "done" \/ pc["run"] = "stopped"
                     THEN SessionMenu(e) ELSE InitMenu(e))

\* A datagram f reaches the call waiting on e: the awaited answer is free,
\* anything else counts as unexpected
DeliverToWaiter(e, f) ==
    /\ f \in PeerMenu(e)
    /\ IF f \in Awaited(e) THEN left' = left
       ELSE left.peer[e] > 0 /\ left' = [left EXCEPT !.peer[e] = @ - 1]

\* A datagram f reaches the reader of e
DeliverToReader(e, f) ==
    /\ f \in PeerMenu(e)
    /\ left.peer[e] > 0
    /\ left' = [left EXCEPT !.peer[e] = @ - 1]

\* asyncio.wait_for gives up
TimeoutExpires ==
    /\ left.timeouts > 0
    /\ left' = [left EXCEPT !.timeouts = @ - 1]

(***************************************************************************)
(* Pkt0Handler: tracked sends and retransmit requests                      *)
(***************************************************************************)

\* dict assignment d[k] = v
BufPut(buf, k, v) == [x \in (DOMAIN buf) \cup {k} |-> IF x = k THEN v ELSE buf[x]]

\* send_tracked_packet, "data[6:8] = struct.pack('<H', self.send_seq)"
StampSeq(h, data) == SetSlice(data, 6, 8, LE16(h.send_seq))

\* send_tracked_packet, "self.tx_seq_buf[self.send_seq] = bytes(data)"
StoreTracked(h, data) == [h EXCEPT !.tx_seq_buf = BufPut(@, h.send_seq, StampSeq(h, data))]

\* A send_seq that is incremented without the 16-bit mask
AdvanceSeqUnmasked(h) == [h EXCEPT !.send_seq = @ + 1]

\* send_tracked_packet, "self.send_seq = (self.send_seq + 1) & 0xFFFF",
\* run when the awaited UDP send has completed
AdvanceSeq(h) == [h EXCEPT !.send_seq = (@ + 1) % SeqMod]

\* The CI-V command of the caller: FE FE A2 E0 25 FD
CivCommand == << 254, 254, 162, 224, 37, 253 >>

\* The client's session id when the modelled session starts
SessionSid == 1793883648

\* The packet stored under seq by one of the CI-V sends made before the
\* modelled window: the k-th send carries k in both sequence fields
EarlierCivPkt(seq) ==
    SetSlice(CivPkt(SessionSid, PeerSid, seq, CivCommand), 6, 8, LE16(seq))

\* The packet stored by the k-th periodic auth send made before the
\* modelled window: the sends follow the three packets of init, so the k-th
\* carries 2 + k as its inner sequence number and 3 + k modulo 2^16 at offset 6
EarlierReauthPkt(k) ==
    SetSlice(AuthPkt(SessionSid, PeerSid, 2 + k, 5, PeerAuthId), 6, 8, LE16((3 + k) % SeqMod))

\* self.tx_seq_buf.get(seq) on endpoint e: the entries written in the
\* modelled window, and before them those of the earlier sends
BufGet(e, seq) ==
    IF seq \in DOMAIN pkt0[e].tx_seq_buf THEN pkt0[e].tx_seq_buf[seq]
    ELSE IF e = "serial" /\ seq >= 1 /\ seq <= earlier.civ THEN EarlierCivPkt(seq)
    ELSE IF e = "control" /\ ((seq + SeqMod - 4) % SeqMod) + 1 <= earlier.reauth
         THEN EarlierReauthPkt(((seq + SeqMod - 4) % SeqMod) + 1)
    ELSE NoFrame

\* Pkt0Handler.is_idle_pkt0
is_idle_pkt0(data) == Len(data) = 16 /\ Slice(data, 0, 6) = << 16, 0, 0, 0, 0, 0 >>

\* Pkt0Handler.is_pkt0
is_pkt0(data) ==
    /\ Len(data) >= 16
    /\ \/ is_idle_pkt0(data)
       \/ Slice(data, 0, 6) = << 16, 0, 0, 0, 1, 0 >>
       \/ Slice(data, 0, 6) = << 24, 0, 0, 0, 1, 0 >>

\* A handler that answers a request for a sequence it does not hold with
\* one idle frame carrying its own send_seq
pkt0_handle_own_seq(e, data) ==
    IF Len(data) < 16 THEN << >>
    ELSE IF Slice(data, 0, 6) = << 16, 0, 0, 0, 1, 0 >>
    THEN LET seq == UnLE16(Slice(data, 6, 8))
             stored_data == BufGet(e, seq)
         IN IF stored_data # NoFrame
            THEN << stored_data, stored_data >>
            ELSE << IdlePkt(stream[e].local_sid, stream[e].remote_sid, FALSE,
                            pkt0[e].send_seq + 1) >>
    ELSE << >>

\* Pkt0Handler.handle: the datagrams it sends on endpoint e for data
pkt0_handle(e, data) ==
    IF Len(data) < 16 THEN << >>
    ELSE IF Slice(data, 0, 6) = << 16, 0, 0, 0, 1, 0 >>
    THEN LET seq == UnLE16(Slice(data, 6, 8))
             stored_data == BufGet(e, seq)
             idle == IdlePkt(stream[e].local_sid, stream[e].remote_sid, FALSE, seq)
         IN IF stored_data # NoFrame
            THEN << stored_data, stored_data >>
            ELSE << idle, idle >>
    ELSE << >>

(***************************************************************************)
(* Pkt7Handler: answering the radio's pings                                *)
(***************************************************************************)

\* A test that takes only the type-7 requests for type-7 frames
is_pkt7_request(data) ==
    Len(data) = 21 /\ Slice(data, 1, 6) = << 0, 0, 0, 7, 0 >> /\ data[17] = 0

\* Pkt7Handler.is_pkt7
is_pkt7(data) == Len(data) = 21 /\ Slice(data, 1, 6) = << 0, 0, 0, 7, 0 >>

\* Pkt7Handler.handle: the datagrams it sends on endpoint e for data
pkt7_handle(e, data) ==
    LET got_seq == UnLE16(Slice(data, 6, 8)) IN
    IF data[17] = 0
    THEN IF pkt7[e].running
         THEN << Pkt7ReplyPkt(stream[e].local_sid, stream[e].remote_sid, Slice(data, 17, 21), got_seq) >>
         ELSE << >>
    ELSE << >>

(***************************************************************************)
(* StreamCommon: the reader and the handshake                              *)
(***************************************************************************)

\* A reader whose type-0 handler sends the replacement idle frames as tracked
\* packets
ReaderRecvTracksIdle(e) ==
    /\ stream[e].readers > 0
    /\ stream[e].running
    /\ stream[e].conn = "open"
    /\ left.peer[e] > 0
    /\ \E data \in PeerMenu(e) :
        /\ DeliverToReader(e, data)
        /\ IF is_pkt7(data)
           THEN /\ wire' = [wire EXCEPT ![e] = @ \o pkt7_handle(e, data)]
                /\ stream' = [stream EXCEPT ![e].last_received = data]
                /\ pkt0' = pkt0
           ELSE /\ wire' = [wire EXCEPT ![e] =
                        @ \o (IF is_pkt0(data) THEN pkt0_handle(e, data) ELSE << >>)]
                /\ stream' = [stream EXCEPT ![e].last_received = data,
                                            ![e].read_chan = Append(@, data)]
                /\ pkt0' = IF is_pkt0(data) /\ Len(pkt0_handle(e, data)) = 2
                              /\ Len(pkt0_handle(e, data)[1]) = 16
                           THEN [pkt0 EXCEPT ![e] =
                                    AdvanceSeq(StoreTracked(@, pkt0_handle(e, data)[1]))]
                           ELSE pkt0
        /\ UNCHANGED << pkt7, ctl, serial_send_seq, pc, start, pending, earlier, icom, call >>

\* One round of StreamCommon._reader on endpoint e: a datagram is read,
\* handled, and forwarded unless it is a type-7 frame
ReaderRecv(e) ==
    /\ stream[e].readers > 0
    /\ stream[e].running
    /\ stream[e].conn = "open"
    /\ left.peer[e] > 0
    /\ \E data \in PeerMenu(e) :
        /\ DeliverToReader(e, data)
        /\ IF is_pkt7(data)
           THEN /\ wire' = [wire EXCEPT ![e] = @ \o pkt7_handle(e, data)]
                /\ stream' = [stream EXCEPT ![e].last_received = data]
           ELSE /\ wire' = [wire EXCEPT ![e] =
                        @ \o (IF is_pkt0(data) THEN pkt0_handle(e, data) ELSE << >>)]
                /\ stream' = [stream EXCEPT ![e].last_received = data,
                                            ![e].read_chan = Append(@, data)]
        /\ UNCHANGED << pkt0, pkt7, ctl, serial_send_seq, pc, start, pending, earlier, icom, call >>

\* StreamCommon._expect: what it returns, or that it raises.  timed_out
\* tells whether wait_for gave up; data is the datagram received otherwise
expect(e, packet_length, pattern, timed_out, data) ==
    IF ~timed_out
    THEN IF Len(data) = packet_length /\ HasPrefix(data, pattern)
         THEN [raised |-> FALSE, response |-> data]
         ELSE [raised |-> FALSE, response |-> data]
    ELSE IF stream[e].last_received # NoFrame
         THEN [raised |-> FALSE, response |-> stream[e].last_received]
         ELSE [raised |-> TRUE, response |-> NoFrame]

\* StreamCommon._recv: the datagram is kept in last_received
LastReceived(e, timed_out, data) == IF timed_out THEN stream[e].last_received ELSE data

\* A start that tries again after every failed attempt
AttemptFailedAlwaysRetries(e) ==
    start' = [start EXCEPT ![e] = [pc |-> "pkt3", attempt |-> @.attempt + 1]]

\* StreamCommon.start, the except branch: retry after 2 s, or raise when
\* this was the last attempt
AttemptFailed(e) ==
    start' = [start EXCEPT ![e] =
                IF @.attempt < max_retries - 1
                THEN [pc |-> "pkt3", attempt |-> @.attempt + 1]
                ELSE [pc |-> "failed", attempt |-> @.attempt]]

\* StreamCommon._send_pkt3: the connection request, three times
SendPkt3(e) ==
    /\ start[e].pc = "pkt3"
    /\ LET pkt == Pkt3(stream[e].local_sid, stream[e].remote_sid)
       IN wire' = [wire EXCEPT ![e] = @ \o << pkt, pkt, pkt >>]
    /\ start' = [start EXCEPT ![e].pc = "wait4"]
    /\ UNCHANGED << stream, pkt0, pkt7, ctl, serial_send_seq, pc, pending, earlier, icom, call, left >>

\* StreamCommon._wait_for_pkt4_answer
wait_for_pkt4_answer(e, timed_out, data) ==
    LET r == expect(e, 16, << 16, 0, 0, 0, 4, 0 >>, timed_out, data)
        sid == Slice(r.response, 8, 12)
    IN /\ start[e].pc = "wait4"
       /\ IF ~r.raised /\ Len(sid) = 4
          THEN /\ stream' = [stream EXCEPT ![e].remote_sid = UnBE32(sid),
                                           ![e].got_remote_sid = TRUE,
                                           ![e].last_received = LastReceived(e, timed_out, data)]
               /\ start' = [start EXCEPT ![e].pc = "pkt6"]
          ELSE /\ stream' = [stream EXCEPT ![e].last_received = LastReceived(e, timed_out, data)]
               /\ AttemptFailed(e)

\* A datagram arrives while _wait_for_pkt4_answer waits
RecvPkt4Answer(e) ==
    /\ start[e].pc = "wait4"
    /\ \E data \in PeerMenu(e) :
        /\ DeliverToWaiter(e, data)
        /\ wait_for_pkt4_answer(e, FALSE, data)
        /\ UNCHANGED << pkt0, pkt7, ctl, serial_send_seq, wire, pc, pending, earlier, icom, call >>

\* No datagram arrives within EXPECT_TIMEOUT_DURATION
TimeoutPkt4Answer(e) ==
    /\ start[e].pc = "wait4"
    /\ TimeoutExpires
    /\ wait_for_pkt4_answer(e, TRUE, NoFrame)
    /\ UNCHANGED << pkt0, pkt7, ctl, serial_send_seq, wire, pc, pending, earlier, icom, call >>

\* StreamCommon._send_pkt6: the ready signal, twice
SendPkt6(e) ==
    /\ start[e].pc = "pkt6"
    /\ LET pkt == Pkt6(stream[e].local_sid, stream[e].remote_sid)
       IN wire' = [wire EXCEPT ![e] = @ \o << pkt, pkt >>]
    /\ start' = [start EXCEPT ![e].pc = "wait6"]
    /\ UNCHANGED << stream, pkt0, pkt7, ctl, serial_send_seq, pc, pending, earlier, icom, call, left >>

\* StreamCommon._wait_for_pkt6_answer: whether it returns for the datagram
\* it received (the response is returned whatever its type and length)
wait_for_pkt6_answer(response) ==
    IF Len(response) >= 6
    THEN IF UnLE16(Slice(response, 4, 6)) = 6 THEN TRUE ELSE TRUE
    ELSE TRUE

\* A datagram arrives while _wait_for_pkt6_answer waits; when it returns,
\* start sets running and creates the reader task
RecvPkt6Answer(e) ==
    /\ start[e].pc = "wait6"
    /\ \E data \in PeerMenu(e) :
        /\ DeliverToWaiter(e, data)
        /\ IF wait_for_pkt6_answer(data)
           THEN /\ stream' = [stream EXCEPT ![e].last_received = data,
                                            ![e].running = TRUE,
                                            ![e].readers = @ + 1]
                /\ start' = [start EXCEPT ![e].pc = "done"]
           ELSE /\ stream' = [stream EXCEPT ![e].last_received = data]
                /\ AttemptFailed(e)
        /\ UNCHANGED << pkt0, pkt7, ctl, serial_send_seq, wire, pc, pending, earlier, icom, call >>

\* No datagram arrives within 10 s: _wait_for_pkt6_answer raises
TimeoutPkt6Answer(e) ==
    /\ start[e].pc = "wait6"
    /\ TimeoutExpires
    /\ AttemptFailed(e)
    /\ UNCHANGED << stream, pkt0, pkt7, ctl, serial_send_seq, wire, pc, pending, earlier, icom, call >>

(***************************************************************************)
(* Tracked sends of a task.  send_tracked_packet stamps and stores the     *)
(* packet, awaits the UDP send, and only then advances send_seq: the two   *)
(* halves are separate steps, and other tasks may run between them when    *)
(* the send suspends.  A send that does not suspend is the two steps with  *)
(* nothing in between.                                                     *)
(***************************************************************************)

\* send_tracked_packet up to "await stream._send(data)", by task t
TrackedBegin(t, data) ==
    LET e == TaskEndpoint(t) IN
    /\ pkt0' = [pkt0 EXCEPT ![e] = StoreTracked(@, data)]
    /\ pending' = [pending EXCEPT ![t] = StampSeq(pkt0[e], data)]

\* send_tracked_packet from the completion of the UDP send, by task t
TrackedEnd(t) ==
    LET e == TaskEndpoint(t) IN
    /\ pending[t] # NoFrame
    /\ wire' = [wire EXCEPT ![e] = Append(@, pending[t])]
    /\ pkt0' = [pkt0 EXCEPT ![e] = AdvanceSeq(@)]
    /\ pending' = [pending EXCEPT ![t] = NoFrame]

(***************************************************************************)
(* ControlStream.init                                                      *)
(***************************************************************************)

\* The values of int(time.time()) & 0xFFFFFFFF at StreamCommon.init
LocalSids == { SessionSid, SessionSid + 1 }

\* random.randint(0, 0xFFFF) of _send_pkt_login
AuthStartIds == { 4660 }

\* random.randint(0, 255) of Pkt7Handler._send
RandomBytes == { 90 }

\* The values of int(time.time()) & 0xFFFFFFFF when _handle_read runs
\* StreamCommon.init again
LaterSids == { SessionSid + 1 }

\* A StreamCommon.init that also forgets the remote sid
StreamInitForgets(st, sid) ==
    [st EXCEPT !.conn = "open", !.local_sid = sid, !.sockets = @ + 1, !.got_remote_sid = FALSE]

\* StreamCommon.init
StreamInit(st, sid) == [st EXCEPT !.conn = "open", !.local_sid = sid, !.sockets = @ + 1]

\* ControlStream.init: the three StreamCommon.init calls, then the control
\* handshake begins
InitSockets ==
    /\ pc["init"] = "sockets"
    /\ \E c \in LocalSids, s \in LocalSids, a \in LocalSids :
          /\ c <= s /\ s <= a
          /\ stream' = [stream EXCEPT !["control"] = StreamInit(@, c),
                                      !["serial"] = StreamInit(@, s),
                                      !["audio"] = StreamInit(@, a)]
    /\ pc' = [pc EXCEPT !["init"] = "start_control"]
    /\ start' = [start EXCEPT !["control"] = [pc |-> "pkt3", attempt |-> 0]]
    /\ UNCHANGED << pkt0, pkt7, ctl, serial_send_seq, wire, pending, earlier, icom, call, left >>

StartLabel(e) ==
    CASE e = "control" -> "start_control" [] e = "serial" -> "start_serial" [] OTHER -> "start_audio"

\* ControlStream.init: start() of the control endpoint returned
InitControlStarted ==
    /\ pc["init"] = "start_control"
    /\ start["control"].pc = "done"
    /\ pc' = [pc EXCEPT !["init"] = "start_serial"]
    /\ start' = [start EXCEPT !["control"].pc = "idle", !["serial"] = [pc |-> "pkt3", attempt |-> 0]]
    /\ UNCHANGED << stream, pkt0, pkt7, ctl, serial_send_seq, wire, pending, earlier, icom, call, left >>

\* ControlStream.init: start() of the serial endpoint returned
InitSerialStarted ==
    /\ pc["init"] = "start_serial"
    /\ start["serial"].pc = "done"
    /\ pc' = [pc EXCEPT !["init"] = "start_audio"]
    /\ start' = [start EXCEPT !["serial"].pc = "idle", !["audio"] = [pc |-> "pkt3", attempt |-> 0]]
    /\ UNCHANGED << stream, pkt0, pkt7, ctl, serial_send_seq, wire, pending, earlier, icom, call, left >>

\* An init that sends the login packet once the serial endpoint has
\* started, without starting the audio endpoint
InitSendLoginBeforeAudio ==
    /\ pc["init"] = "start_serial"
    /\ start["serial"].pc = "done"
    /\ \E id \in AuthStartIds :
          LET pkt == LoginPkt(stream["control"].local_sid, stream["control"].remote_sid,
                              ctl.auth_inner_send_seq, id)
          IN /\ pkt0' = [pkt0 EXCEPT !["control"] = StoreTracked(NewPkt0, pkt)]
             /\ pending' = [pending EXCEPT !["init"] = StampSeq(NewPkt0, pkt)]
    /\ pc' = [pc EXCEPT !["init"] = "login_sending"]
    /\ start' = [start EXCEPT !["serial"].pc = "idle"]
    /\ UNCHANGED << stream, pkt7, ctl, serial_send_seq, wire, earlier, icom, call, left >>

\* ControlStream.init: start() of the audio endpoint returned; the control
\* endpoint gets a new Pkt0Handler and the login packet is handed to
\* send_tracked_packet
InitSendLogin ==
    /\ pc["init"] = "start_audio"
    /\ start["audio"].pc = "done"
    /\ \E id \in AuthStartIds :
          LET pkt == LoginPkt(stream["control"].local_sid, stream["control"].remote_sid,
                              ctl.auth_inner_send_seq, id)
          IN /\ pkt0' = [pkt0 EXCEPT !["control"] = StoreTracked(NewPkt0, pkt)]
             /\ pending' = [pending EXCEPT !["init"] = StampSeq(NewPkt0, pkt)]
    /\ pc' = [pc EXCEPT !["init"] = "login_sending"]
    /\ start' = [start EXCEPT !["audio"].pc = "idle"]
    /\ UNCHANGED << stream, pkt7, ctl, serial_send_seq, wire, earlier, icom, call, left >>

\* ControlStream.init: a start() raised after its last attempt; init raises
InitStartFailed ==
    /\ \E e \in Endpoints : pc["init"] = StartLabel(e) /\ start[e].pc = "failed"
    /\ pc' = [pc EXCEPT !["init"] = "failed"]
    /\ UNCHANGED << stream, pkt0, pkt7, ctl, serial_send_seq, wire, start, pending, earlier, icom, call, left >>

\* _send_pkt_login after the send: "self.auth_inner_send_seq += 1"; init
\* goes on to wait for the login answer
InitLoginSent ==
    /\ pc["init"] = "login_sending"
    /\ TrackedEnd("init")
    /\ ctl' = [ctl EXCEPT !.auth_inner_send_seq = @ + 1]
    /\ pc' = [pc EXCEPT !["init"] = "expect_login"]
    /\ UNCHANGED << stream, pkt7, serial_send_seq, start, earlier, icom, call, left >>

\* ControlStream.init from the login answer to the first auth packet:
\* refused credentials raise; otherwise the ping sender starts, the auth id
\* is taken from bytes 26..32 and auth 0x02 is handed to send_tracked_packet
login_answer(timed_out, data) ==
    LET r == expect("control", 96, << 96, 0, 0, 0, 0, 0, 1, 0 >>, timed_out, data)
        response == r.response
        st == [stream EXCEPT !["control"].last_received = LastReceived("control", timed_out, data)]
        auth_id == SetSlice(ctl.auth_id, 0, Len(ctl.auth_id), Slice(response, 26, 32))
    IN /\ pc["init"] = "expect_login"
       /\ stream' = st
       /\ IF r.raised \/ Slice(response, 48, 52) = << 255, 255, 255, 254 >>
          THEN /\ pc' = [pc EXCEPT !["init"] = "failed"]
               /\ UNCHANGED << pkt0, pkt7, ctl, pending >>
          ELSE /\ pkt7' = [pkt7 EXCEPT !["control"].running = TRUE,
                                       !["control"].send_task = "alive"]
               /\ ctl' = [ctl EXCEPT !.auth_id = auth_id, !.got_auth_id = TRUE]
               /\ TrackedBegin("init", AuthPkt(stream["control"].local_sid,
                                               stream["control"].remote_sid,
                                               ctl.auth_inner_send_seq, 2, auth_id))
               /\ pc' = [pc EXCEPT !["init"] = "auth02_sending"]

\* A datagram arrives while init waits for the login answer
RecvLoginAnswer ==
    /\ pc["init"] = "expect_login"
    /\ \E data \in PeerMenu("control") :
        /\ DeliverToWaiter("control", data)
        /\ login_answer(FALSE, data)
        /\ UNCHANGED << serial_send_seq, wire, start, earlier, icom, call >>

\* No datagram reaches init within EXPECT_TIMEOUT_DURATION
TimeoutLoginAnswer ==
    /\ pc["init"] = "expect_login"
    /\ TimeoutExpires
    /\ login_answer(TRUE, NoFrame)
    /\ UNCHANGED << serial_send_seq, wire, start, earlier, icom, call >>

\* _send_pkt_auth(0x02) after the send, then _send_pkt_auth(0x05) up to its send
InitAuth02Sent ==
    /\ pc["init"] = "auth02_sending"
    /\ pending["init"] # NoFrame
    /\ LET h == AdvanceSeq(pkt0["control"])
           pkt == AuthPkt(stream["control"].local_sid, stream["control"].remote_sid,
                          ctl.auth_inner_send_seq + 1, 5, ctl.auth_id)
       IN /\ wire' = [wire EXCEPT !["control"] = Append(@, pending["init"])]
          /\ pkt0' = [pkt0 EXCEPT !["control"] = StoreTracked(h, pkt)]
          /\ pending' = [pending EXCEPT !["init"] = StampSeq(h, pkt)]
    /\ ctl' = [ctl EXCEPT !.auth_inner_send_seq = @ + 1]
    /\ pc' = [pc EXCEPT !["init"] = "auth05_sending"]
    /\ UNCHANGED << stream, pkt7, serial_send_seq, start, earlier, icom, call, left >>

\* _send_pkt_auth(0x05) after the send; init sets running and creates the
\* main loop and the reauth loop
InitAuth05Sent ==
    /\ pc["init"] = "auth05_sending"
    /\ TrackedEnd("init")
    /\ ctl' = [ctl EXCEPT !.auth_inner_send_seq = @ + 1, !.running = TRUE]
    /\ pc' = [pc EXCEPT !["init"] = "done", !["main"] = "get", !["reauth"] = "sleep"]
    /\ UNCHANGED << stream, pkt7, serial_send_seq, start, earlier, icom, call, left >>

(***************************************************************************)
(* Pkt7Handler: the periodic ping sender                                   *)
(***************************************************************************)

\* A ping sender that takes its sequence number from the type-0 handler
ProbeFireSharedSeq(e) ==
    /\ pkt7[e].send_task = "alive"
    /\ pkt7[e].running
    /\ stream[e].conn = "open"
    /\ left.probes > 0
    /\ left' = [left EXCEPT !.probes = @ - 1]
    /\ \E rnd \in RandomBytes :
          LET reply_id == ProbeReplyId(rnd, pkt7[e].inner_send_seq)
          IN wire' = [wire EXCEPT ![e] =
                 Append(@, Pkt7ProbePkt(stream[e].local_sid, stream[e].remote_sid,
                                        reply_id, pkt0[e].send_seq))]
    /\ pkt7' = [pkt7 EXCEPT ![e].inner_send_seq = @ + 1]
    /\ pkt0' = [pkt0 EXCEPT ![e] = AdvanceSeq(@)]
    /\ UNCHANGED << stream, ctl, serial_send_seq, pc, start, pending, earlier, icom, call >>

\* Pkt7Handler._periodic_send_loop: PKT7_SEND_INTERVAL has passed and
\* Pkt7Handler._send sends a ping on endpoint e
ProbeFire(e) ==
    /\ pkt7[e].send_task = "alive"
    /\ pkt7[e].running
    /\ stream[e].conn = "open"
    /\ left.probes > 0
    /\ left' = [left EXCEPT !.probes = @ - 1]
    /\ \E rnd \in RandomBytes :
          LET reply_id == ProbeReplyId(rnd, pkt7[e].inner_send_seq)
          IN wire' = [wire EXCEPT ![e] =
                 Append(@, Pkt7ProbePkt(stream[e].local_sid, stream[e].remote_sid,
                                        reply_id, pkt7[e].send_seq))]
    /\ pkt7' = [pkt7 EXCEPT ![e].inner_send_seq = @ + 1,
                            ![e].send_seq = (@ + 1) % SeqMod]
    /\ UNCHANGED << stream, pkt0, ctl, serial_send_seq, pc, start, pending, earlier, icom, call >>

(***************************************************************************)
(* ControlStream: the main loop                                            *)
(***************************************************************************)

\* struct.pack_into('<H', ...) raises struct.error for a value that is not
\* in 0..65535
PackRaises(v) == v < 0 \/ v > 65535

\* A guard that does not look at auth_ok
request_possible_unauthenticated(c) ==
    ~c.serial_and_audio_stream_opened /\ c.got_a8_reply_id

\* _send_request_serial_and_audio_if_possible: whether the request is sent,
\* for the flags c of the control stream
request_possible(c) ==
    ~c.serial_and_audio_stream_opened /\ c.auth_ok /\ c.got_a8_reply_id

\* _send_request_serial_and_audio_if_possible with the control fields c:
\* the request is handed to send_tracked_packet, or nothing is done; when
\* the inner sequence number cannot be packed, the exception ends _main_loop
SendRequestIfPossible(c) ==
    IF request_possible(c)
    THEN IF PackRaises(c.auth_inner_send_seq)
         THEN /\ pc' = [pc EXCEPT !["main"] = "ended"]
              /\ UNCHANGED << pkt0, pending >>
         ELSE /\ TrackedBegin("main", SerialAudioReqPkt(stream["control"].local_sid,
                                                         stream["control"].remote_sid,
                                                         c.auth_inner_send_seq, c.auth_id,
                                                         c.a8_reply_id))
              /\ pc' = [pc EXCEPT !["main"] = "req_sending"]
    ELSE UNCHANGED << pkt0, pending, pc >>

\* b.find(b'\x00'): the offset of the first zero byte, or -1
RECURSIVE find_zero(_, _)
find_zero(b, i) ==
    IF i >= Len(b) THEN -1
    ELSE IF b[i + 1] = 0 THEN i
    ELSE find_zero(b, i + 1)

\* Whether b.decode('utf-8') succeeds: b is a sequence of well-formed UTF-8
\* codes (no overlong forms, no surrogates, nothing above U+10FFFF)
RECURSIVE utf8_decodes(_)
utf8_decodes(b) ==
    IF b = << >> THEN TRUE
    ELSE LET c == b[1]
             n == CASE c < 128 -> 1
                    [] c >= 194 /\ c <= 223 -> 2
                    [] c >= 224 /\ c <= 239 -> 3
                    [] c >= 240 /\ c <= 244 -> 4
                    [] OTHER -> 0
             lo == CASE c = 224 -> 160 [] c = 240 -> 144 [] OTHER -> 128
             hi == CASE c = 237 -> 159 [] c = 244 -> 143 [] OTHER -> 191
         IN /\ n > 0
            /\ Len(b) >= n
            /\ n >= 2 => b[2] >= lo /\ b[2] <= hi
            /\ \A k \in 3..n : b[k] >= 128 /\ b[k] <= 191
            /\ utf8_decodes(SubSeq(b, n + 1, Len(b)))

\* _handle_read, "Extract device name": whether the decode raises
device_name_raises(response) ==
    LET device_name_end == find_zero(SliceFrom(response, 64), 0)
    IN device_name_end > 0 /\ ~utf8_decodes(Slice(response, 64, 64 + device_name_end))

\* _main_loop takes a frame from read_chan and _handle_read handles it; an
\* exception raised in _handle_read ends the loop
MainHandleRead ==
    /\ pc["main"] = "get"
    /\ ctl.running
    /\ stream["control"].read_chan # << >>
    /\ LET response == Head(stream["control"].read_chan)
           popped == [stream EXCEPT !["control"].read_chan = Tail(@)]
       IN IF Len(response) = 64 /\ Slice(response, 0, 6) = << 64, 0, 0, 0, 0, 0 >>
          THEN \* auth response
               IF response[22] = 5
               THEN LET c == [ctl EXCEPT !.auth_ok = TRUE]
                    IN /\ ctl' = c
                       /\ stream' = popped
                       /\ SendRequestIfPossible(c)
                       /\ UNCHANGED start
               ELSE /\ stream' = popped
                    /\ UNCHANGED << ctl, pkt0, pending, pc, start >>
          ELSE IF Len(response) = 80 /\ Slice(response, 0, 6) = << 80, 0, 0, 0, 0, 0 >>
          THEN \* a8 reply id
               LET c == [ctl EXCEPT !.a8_reply_id = SetSlice(@, 0, Len(@), Slice(response, 32, 48)),
                                    !.got_a8_reply_id = TRUE]
               IN /\ ctl' = c
                  /\ stream' = popped
                  /\ SendRequestIfPossible(c)
                  /\ UNCHANGED start
          ELSE IF /\ Len(response) = 144
                  /\ Slice(response, 0, 6) = << 144, 0, 0, 0, 0, 0 >>
                  /\ response[97] = 1
          THEN \* success: the device name is decoded, then self.serial.init()
               \* runs StreamCommon.init and start
               IF device_name_raises(response)
               THEN /\ stream' = popped
                    /\ pc' = [pc EXCEPT !["main"] = "ended"]
                    /\ UNCHANGED << ctl, pkt0, pending, start >>
               ELSE \E sid \in LaterSids :
                      /\ stream' = [popped EXCEPT !["serial"] = StreamInit(@, sid)]
                      /\ start' = [start EXCEPT !["serial"] = [pc |-> "pkt3", attempt |-> 0]]
                      /\ pc' = [pc EXCEPT !["main"] = "init_serial"]
                      /\ UNCHANGED << ctl, pkt0, pending >>
          ELSE /\ stream' = popped
               /\ UNCHANGED << ctl, pkt0, pending, pc, start >>
    /\ UNCHANGED << pkt7, serial_send_seq, wire, earlier, icom, call, left >>

\* _send_request_serial_and_audio after the send: "self.auth_inner_send_seq += 1"
MainRequestSent ==
    /\ pc["main"] = "req_sending"
    /\ TrackedEnd("main")
    /\ ctl' = [ctl EXCEPT !.auth_inner_send_seq = @ + 1]
    /\ pc' = [pc EXCEPT !["main"] = "get"]
    /\ UNCHANGED << stream, pkt7, serial_send_seq, start, earlier, icom, call, left >>

\* _handle_read: self.serial.init() returned; self.audio.init() runs
\* StreamCommon.init and start
MainSerialStarted ==
    /\ pc["main"] = "init_serial"
    /\ start["serial"].pc = "done"
    /\ \E sid \in LaterSids : stream' = [stream EXCEPT !["audio"] = StreamInit(@, sid)]
    /\ start' = [start EXCEPT !["serial"].pc = "idle", !["audio"] = [pc |-> "pkt3", attempt |-> 0]]
    /\ pc' = [pc EXCEPT !["main"] = "init_audio"]
    /\ UNCHANGED << pkt0, pkt7, ctl, serial_send_seq, wire, pending, earlier, icom, call, left >>

\* _handle_read: self.audio.init() returned; the streams are marked opened
MainAudioStarted ==
    /\ pc["main"] = "init_audio"
    /\ start["audio"].pc = "done"
    /\ ctl' = [ctl EXCEPT !.serial_and_audio_stream_opened = TRUE]
    /\ start' = [start EXCEPT !["audio"].pc = "idle"]
    /\ pc' = [pc EXCEPT !["main"] = "get"]
    /\ UNCHANGED << stream, pkt0, pkt7, serial_send_seq, wire, pending, earlier, icom, call, left >>

\* _main_loop: a start() called from _handle_read raised; the loop logs
\* the error and ends
MainStartFailed ==
    /\ \/ pc["main"] = "init_serial" /\ start["serial"].pc = "failed"
       \/ pc["main"] = "init_audio" /\ start["audio"].pc = "failed"
    /\ pc' = [pc EXCEPT !["main"] = "ended"]
    /\ UNCHANGED << stream, pkt0, pkt7, ctl, serial_send_seq, wire, start, pending, earlier, icom, call, left >>

(***************************************************************************)
(* ControlStream: the reauth loop                                          *)
(***************************************************************************)

\* _reauth_loop: REAUTH_INTERVAL has passed; auth 0x05 is handed to
\* send_tracked_packet, or the loop ends when the inner sequence number
\* cannot be packed
ReauthFire ==
    /\ pc["reauth"] = "sleep"
    /\ ctl.running
    /\ left.reauth > 0
    /\ left' = [left EXCEPT !.reauth = @ - 1]
    /\ IF PackRaises(ctl.auth_inner_send_seq)
       THEN /\ pc' = [pc EXCEPT !["reauth"] = "ended"]
            /\ UNCHANGED << pkt0, pending >>
       ELSE /\ TrackedBegin("reauth", AuthPkt(stream["control"].local_sid,
                                              stream["control"].remote_sid,
                                              ctl.auth_inner_send_seq, 5, ctl.auth_id))
            /\ pc' = [pc EXCEPT !["reauth"] = "sending"]
    /\ UNCHANGED << stream, pkt7, ctl, serial_send_seq, wire, start, earlier, icom, call >>

\* _send_pkt_auth after the send: "self.auth_inner_send_seq += 1"
ReauthSent ==
    /\ pc["reauth"] = "sending"
    /\ TrackedEnd("reauth")
    /\ ctl' = [ctl EXCEPT !.auth_inner_send_seq = @ + 1]
    /\ pc' = [pc EXCEPT !["reauth"] = "sleep"]
    /\ UNCHANGED << stream, pkt7, serial_send_seq, start, earlier, icom, call, left >>

(***************************************************************************)
(* SerialStream.send_civ_command                                           *)
(***************************************************************************)

\* send_civ_command(command) up to the UDP send; the caller sends its
\* commands while the serial socket is open
CallerSend(command) ==
    /\ pc["caller"] = "idle"
    /\ stream["serial"].conn = "open"
    /\ left.civ > 0
    /\ left' = [left EXCEPT !.civ = @ - 1]
    /\ TrackedBegin("caller", CivPkt(stream["serial"].local_sid, stream["serial"].remote_sid,
                                     serial_send_seq, command))
    /\ pc' = [pc EXCEPT !["caller"] = "sending"]
    /\ UNCHANGED << stream, pkt7, ctl, serial_send_seq, wire, start, earlier, icom, call >>

\* The caller sends the command FE FE A2 E0 25 FD
CallerSendCiv == CallerSend(CivCommand)

\* send_civ_command after the send: "self.send_seq = (self.send_seq + 1) & 0xFFFF"
CallerCivSent ==
    /\ pc["caller"] = "sending"
    /\ TrackedEnd("caller")
    /\ serial_send_seq' = (serial_send_seq + 1) % SeqMod
    /\ pc' = [pc EXCEPT !["caller"] = "idle"]
    /\ UNCHANGED << stream, pkt7, ctl, start, earlier, icom, call, left >>

(***************************************************************************)
(* ShackMate.run leaving its try statement: cleanup, ControlStream.deinit  *)
(* and StreamCommon.deinit                                                 *)
(***************************************************************************)

\* task.cancel() on the main loop or the reauth loop: a task that exists
\* and has not ended is cancelled where it waits
Cancelled(label) == IF label \in {"none", "ended"} THEN label ELSE "cancelled"

\* ShackMate.cleanup and ControlStream.deinit up to self.serial.deinit():
\* the flags are set, the main loop and the reauth loop are cancelled and
\* with them the send or the handshake they wait in.  outcome tells how
\* run left its try statement
Cleanup(outcome) ==
    /\ ctl' = [ctl EXCEPT !.running = FALSE, !.deinitializing = TRUE]
    /\ pc' = [pc EXCEPT !["init"] = "deinit_serial", !["run"] = outcome,
                        !["main"] = Cancelled(@), !["reauth"] = Cancelled(@),
                        !["signal"] = IF outcome = "stopped" THEN "handled" ELSE @]
    /\ pending' = [pending EXCEPT !["main"] = NoFrame, !["reauth"] = NoFrame]
    /\ start' = IF pc["main"] \in {"init_serial", "init_audio"}
                THEN [e \in Endpoints |-> [start[e] EXCEPT !.pc = "idle"]]
                ELSE start
    /\ UNCHANGED << stream, pkt0, pkt7, serial_send_seq, wire, earlier, icom, call >>

\* ShackMate.run: init raised; "except Exception" makes run return False
\* once the finally clause has run cleanup
RunFailed ==
    /\ pc["init"] = "failed"
    /\ pc["run"] = "try"
    /\ Cleanup("failed")
    /\ UNCHANGED left

\* ShackMate.run: the signal handler has cleared self.running, the loop
\* ends and the finally clause runs cleanup; run will return True
RunStopped ==
    /\ pc["init"] = "done"
    /\ pc["run"] = "try"
    /\ left.signal > 0
    /\ left' = [left EXCEPT !.signal = @ - 1]
    /\ Cleanup("stopped")

\* ShackMate.run: SIGINT or SIGTERM arrives while run awaits
\* control_stream.init().  The handler executes "self.running = False",
\* which running already is; run goes on with init and sets
\* "self.running = True" when init has returned
SignalBeforeLoop ==
    /\ pc["run"] = "try"
    /\ pc["init"] \notin {"done", "failed"}
    /\ left.signal > 0
    /\ left' = [left EXCEPT !.signal = @ - 1]
    /\ pc' = [pc EXCEPT !["signal"] = "handled"]
    /\ UNCHANGED << stream, pkt0, pkt7, ctl, serial_send_seq, wire, start, pending, earlier, icom, call >>

\* Where ControlStream.deinit is when it calls deinit of endpoint e, when
\* that deinit awaits its reader, and where it goes on afterwards
DeinitLabel(e) ==
    CASE e = "serial" -> "deinit_serial" [] e = "audio" -> "deinit_audio" [] OTHER -> "deinit_control"
CloseLabel(e) ==
    CASE e = "serial" -> "close_serial" [] e = "audio" -> "close_audio" [] OTHER -> "close_control"
AfterClose(e) ==
    CASE e = "serial" -> "deinit_audio" [] e = "audio" -> "deauth" [] OTHER -> "closed"

\* StreamCommon.deinit of endpoint e up to "await self.reader_task":
\* running is cleared, send_disconnect sends its packet twice when the
\* remote sid is known, and the reader task is cancelled
StreamDeinitBegin(e) ==
    /\ pc["init"] = DeinitLabel(e)
    /\ LET pkt == DisconnectPkt(stream[e].local_sid, stream[e].remote_sid)
       IN wire' = [wire EXCEPT ![e] =
                     IF stream[e].got_remote_sid /\ stream[e].conn = "open"
                     THEN @ \o << pkt, pkt >> ELSE @]
    /\ stream' = [stream EXCEPT ![e].running = FALSE,
                                ![e].readers = IF @ > 0 THEN @ - 1 ELSE @]
    /\ pc' = [pc EXCEPT !["init"] = CloseLabel(e)]
    /\ UNCHANGED << pkt0, pkt7, ctl, serial_send_seq, start, pending, earlier, icom, call, left >>

\* StreamCommon.deinit of endpoint e from the end of the reader task: the
\* socket is closed and self.conn is cleared
StreamDeinitEnd(e) ==
    /\ pc["init"] = CloseLabel(e)
    /\ stream' = [stream EXCEPT ![e].conn = "none",
                                ![e].sockets = IF stream[e].conn = "open" THEN @ - 1 ELSE @]
    /\ pc' = [pc EXCEPT !["init"] = AfterClose(e)]
    /\ UNCHANGED << pkt0, pkt7, ctl, serial_send_seq, wire, start, pending, earlier, icom, call, left >>

\* ControlStream.deinit, "if self.got_auth_id and self.common.got_remote_sid":
\* auth 0x01 is handed to send_tracked_packet; when the inner sequence
\* number cannot be packed the exception leaves deinit, cleanup and run
DeinitDeauth ==
    /\ pc["init"] = "deauth"
    /\ IF ctl.got_auth_id /\ stream["control"].got_remote_sid
       THEN IF PackRaises(ctl.auth_inner_send_seq)
            THEN /\ pc' = [pc EXCEPT !["init"] = "raised"]
                 /\ UNCHANGED << pkt0, pending >>
            ELSE /\ TrackedBegin("init", AuthPkt(stream["control"].local_sid,
                                                 stream["control"].remote_sid,
                                                 ctl.auth_inner_send_seq, 1, ctl.auth_id))
                 /\ pc' = [pc EXCEPT !["init"] = "deauth_sending"]
       ELSE /\ pc' = [pc EXCEPT !["init"] = "deinit_control"]
            /\ UNCHANGED << pkt0, pending >>
    /\ UNCHANGED << stream, pkt7, ctl, serial_send_seq, wire, start, earlier, icom, call, left >>

\* _send_pkt_auth(0x01) after the send: "self.auth_inner_send_seq += 1",
\* then deinit sleeps 0.5 s and goes on to self.common.deinit()
DeinitDeauthSent ==
    /\ pc["init"] = "deauth_sending"
    /\ TrackedEnd("init")
    /\ ctl' = [ctl EXCEPT !.auth_inner_send_seq = @ + 1]
    /\ pc' = [pc EXCEPT !["init"] = "deinit_control"]
    /\ UNCHANGED << stream, pkt7, serial_send_seq, start, earlier, icom, call, left >>

\* main: "return 0 if success else 1" after run has returned, and
\* sys.exit(1) when an exception has left run
RunReturns ==
    /\ pc["init"] \in {"closed", "raised"}
    /\ pc' = [pc EXCEPT !["init"] = "exited",
                        !["run"] = IF pc["init"] = "closed" /\ pc["run"] = "stopped"
                                   THEN "exit0" ELSE "exit1"]
    /\ UNCHANGED << stream, pkt0, pkt7, ctl, serial_send_seq, wire, start, pending,
                    earlier, icom, call, left >>

\* The steps of ControlStream.deinit
DeinitStep ==
    \/ \E e \in Endpoints : StreamDeinitBegin(e)
    \/ \E e \in Endpoints : StreamDeinitEnd(e)
    \/ DeinitDeauth
    \/ DeinitDeauthSent
    \/ RunReturns

\* ControlStream.deinit called once more when a first call has returned:
\* the flags are set again, cancelling the ended tasks does nothing, and
\* StreamCommon.deinit of the serial and the audio endpoint finds conn None
\* and sends nothing.  got_auth_id and got_remote_sid are still set, so
\* _send_pkt_auth(0x01) builds the deauth packet: packing raises when the
\* inner sequence number is out of range; otherwise send_tracked_packet
\* stamps and stores the packet and _send raises on the socket that is None.
\* Only without an auth id or a remote sid does the call reach
\* self.common.deinit() and return
DeinitAgain ==
    /\ pc["init"] = "closed"
    /\ ctl' = [ctl EXCEPT !.running = FALSE, !.deinitializing = TRUE]
    /\ stream' = [e \in Endpoints |-> [stream[e] EXCEPT !.running = FALSE]]
    /\ IF ctl.got_auth_id /\ stream["control"].got_remote_sid
       THEN /\ pc' = [pc EXCEPT !["init"] = "raised_again"]
            /\ pkt0' = IF PackRaises(ctl.auth_inner_send_seq) THEN pkt0
                       ELSE [pkt0 EXCEPT !["control"] =
                               StoreTracked(@, AuthPkt(stream["control"].local_sid,
                                                       stream["control"].remote_sid,
                                                       ctl.auth_inner_send_seq, 1, ctl.auth_id))]
       ELSE /\ pc' = [pc EXCEPT !["init"] = "closed_again"]
            /\ pkt0' = pkt0
    /\ UNCHANGED << pkt7, serial_send_seq, wire, start, pending, earlier, icom, call, left >>

(***************************************************************************)
(* Specifications                                                          *)
(***************************************************************************)

\* The steps of StreamCommon.start on endpoint e
StartStep(e) ==
    \/ SendPkt3(e)
    \/ RecvPkt4Answer(e)
    \/ TimeoutPkt4Answer(e)
    \/ SendPkt6(e)
    \/ RecvPkt6Answer(e)
    \/ TimeoutPkt6Answer(e)

\* ShackMate.run but for the login packet and the readers: the steps of
\* ControlStream.init, from construction until it returns or raises, with
\* the ping sender it starts on the way, the signal handler, and the teardown
RunStep ==
    \/ InitSockets
    \/ \E e \in Endpoints : StartStep(e)
    \/ InitControlStarted
    \/ InitSerialStarted
    \/ InitStartFailed
    \/ InitLoginSent
    \/ RecvLoginAnswer
    \/ TimeoutLoginAnswer
    \/ InitAuth02Sent
    \/ InitAuth05Sent
    \/ \E e \in Endpoints : ProbeFire(e)
    \/ RunFailed
    \/ SignalBeforeLoop
    \/ RunStopped
    \/ DeinitStep

\* ShackMate.run with the readers that ControlStream.init starts, and a
\* caller of SerialStream.send_civ_command
Next ==
    \/ RunStep
    \/ InitSendLogin
    \/ \E e \in Endpoints : ReaderRecv(e)
    \/ CallerSendCiv
    \/ CallerCivSent

Spec == Init /\ [][Next]_vars

\* init is about to hand the login packet to send_tracked_packet: the state
\* in which InitSendLogin can be taken, and which InitSendLogin ends
LoginDue == pc["init"] = "start_audio" /\ start["audio"].pc = "done"

\* What the environment does in one behaviour of ShackMate.run in which the
\* user interrupts the program and the radio sends nothing but the answers
\* that are awaited: a timeout expires and a ping falls due, or the radio
\* stays silent for long
RunBudgets ==
    { [ peer |-> [e \in Endpoints |-> 0],
        timeouts |-> MaxInitTimeouts, probes |-> MaxProbes, reauth |-> 0, civ |-> 0,
        signal |-> 1, rare |-> TRUE ],
      [ peer |-> [e \in Endpoints |-> 0],
        timeouts |-> MaxSilentTimeouts, probes |-> 0, reauth |-> 0, civ |-> 0,
        signal |-> 1, rare |-> TRUE ] }

InitRun == Constructed /\ left \in RunBudgets

NextRun == RunStep \/ InitSendLogin

\* The run with an event loop that runs every task that can run: a wait
\* ends with a datagram or with its timeout, a send completes, the login
\* packet is sent when it is due, and the loop of run ends when the flag is
\* cleared
SpecRun == InitRun /\ [][NextRun]_vars /\ WF_vars(RunStep) /\ []<>(~LoginDue)

\* An endpoint whose StreamCommon.start has returned after the radio
\* answered pkt3 and pkt6: the reader runs
Started(sid) ==
    [ NewStream EXCEPT !.conn = "open", !.local_sid = sid, !.remote_sid = PeerSid,
                       !.got_remote_sid = TRUE, !.readers = 1, !.running = TRUE,
                       !.last_received = PeerPkt6(sid), !.sockets = 1 ]

\* The endpoints that have completed start() when e0 runs it in init
StartsBefore(e0) ==
    CASE e0 = "control" -> {}
      [] e0 = "serial" -> {"control"}
      [] OTHER -> {"control", "serial"}

\* One StreamCommon.start of ControlStream.init: endpoint e0 is about to
\* send its first pkt3; the endpoints before it have completed their start
InitStart ==
    \E e0 \in Endpoints, sid \in LocalSids :
        /\ stream = [e \in Endpoints |->
                        IF e \in StartsBefore(e0) THEN Started(SessionSid)
                        ELSE IF e = e0 THEN StreamInit(NewStream, sid)
                        ELSE StreamInit(NewStream, SessionSid + 1)]
        /\ pkt0 = [e \in Endpoints |-> NewPkt0]
        /\ pkt7 = [e \in Endpoints |-> NewPkt7]
        /\ ctl = NewCtl
        /\ serial_send_seq = 1
        /\ wire = [e \in Endpoints |-> << >>]
        /\ pc = [t \in Procs |-> CASE t = "init" -> StartLabel(e0)
                                   [] t = "caller" -> "idle"
                                   [] t = "run" -> "try"
                                   [] OTHER -> "none"]
        /\ start = [e \in Endpoints |->
                        [pc |-> IF e = e0 THEN "pkt3" ELSE "idle", attempt |-> 0]]
        /\ pending = [t \in Tasks |-> NoFrame]
        /\ earlier = NoEarlier
        /\ icom = NewController
        /\ call = NoCall
        /\ left = [ peer |-> [e \in Endpoints |-> IF e = e0 THEN MaxStartPeerFrames ELSE 0],
                    timeouts |-> MaxStartTimeouts, probes |-> 0, reauth |-> 0, civ |-> 0,
                    signal |-> 0, rare |-> TRUE ]

\* The started endpoint's steps, and the readers of the endpoints that run one
NextStart ==
    \/ \E e \in Endpoints : StartStep(e)
    \/ \E e \in Endpoints : ReaderRecv(e)

SpecStart == InitStart /\ [][NextStart]_vars

\* The packets ControlStream.init has sent through send_tracked_packet when
\* it returns, by sequence number: login, auth 0x02, auth 0x05
InitTracked(sid, auth_start_id) ==
    LET login == LoginPkt(sid, PeerSid, 0, auth_start_id)
        auth02 == AuthPkt(sid, PeerSid, 1, 2, PeerAuthId)
        auth05 == AuthPkt(sid, PeerSid, 2, 5, PeerAuthId)
    IN [k \in 1..3 |-> SetSlice(CASE k = 1 -> login [] k = 2 -> auth02 [] OTHER -> auth05,
                                6, 8, LE16(k))]

\* The CI-V commands the caller may have sent before the modelled window:
\* none, or so many that the next sends cross 65535
EarlierSends == { 0, SeqMod - 3 }

\* The periodic auth packets the reauth loop may have sent before the
\* modelled window: none, or so many that the next one carries 65535 as its
\* inner sequence number
EarlierReauths == { 0, SeqMod - 4 }

\* PKT7_SEND_INTERVAL and REAUTH_INTERVAL: the pings sent per periodic auth
PingsPerReauth == 20

\* What the environment does in one behaviour of the session: either the
\* caller sends CI-V commands while the radio sends on the serial and the
\* audio endpoint and a ping falls due, or the radio sends on the control
\* endpoint, its rarer datagrams included, or the radio sends its usual
\* datagrams on the control endpoint while the reauth interval passes, or
\* the radio sends on the control endpoint and receive timeouts expire, or the radio sends on the
\* control endpoint and the user interrupts the program, or the reauth
\* interval passes and the user interrupts the program, or pings fall due
\* while the radio sends at most once on the control endpoint
SessionBudgets ==
    { [ peer |-> [e \in Endpoints |-> IF e = "control" THEN 0 ELSE MaxCallerPeerFrames],
        timeouts |-> 0, probes |-> MaxProbes, reauth |-> 0, civ |-> MaxCiv, signal |-> 0, rare |-> TRUE ],
      [ peer |-> [e \in Endpoints |-> IF e = "control" THEN MaxSessionPeerFrames ELSE 0],
        timeouts |-> 0, probes |-> 0, reauth |-> 0, civ |-> 0, signal |-> 0, rare |-> TRUE ],
      [ peer |-> [e \in Endpoints |-> IF e = "control" THEN MaxSessionPeerFrames ELSE 0],
        timeouts |-> 0, probes |-> 0, reauth |-> MaxReauth, civ |-> 0, signal |-> 0, rare |-> FALSE ],
      [ peer |-> [e \in Endpoints |-> IF e = "control" THEN MaxReinitPeerFrames ELSE 0],
        timeouts |-> MaxReinitTimeouts, probes |-> 0, reauth |-> 0, civ |-> 0, signal |-> 0, rare |-> TRUE ],
      [ peer |-> [e \in Endpoints |-> IF e = "control" THEN MaxShutdownPeerFrames ELSE 0],
        timeouts |-> 0, probes |-> MaxProbes, reauth |-> 0, civ |-> 0, signal |-> 1, rare |-> TRUE ],
      [ peer |-> [e \in Endpoints |-> 0],
        timeouts |-> 0, probes |-> 0, reauth |-> MaxReauth, civ |-> 0, signal |-> 1, rare |-> TRUE ],
      [ peer |-> [e \in Endpoints |-> IF e = "control" THEN MaxLostPeerFrames ELSE 0],
        timeouts |-> 0, probes |-> MaxLostProbes, reauth |-> 0, civ |-> 0, signal |-> 0, rare |-> TRUE ] }

\* The session when ControlStream.init has returned after the radio answered
\* every handshake and accepted the login: the three readers, the ping
\* sender, the main loop and the reauth loop run, nothing has been read yet.
\* n CI-V commands and m periodic auth packets were sent before, budget is
\* what the environment may do
SessionStart(n, m, id, budget) ==
    /\ stream = [e \in Endpoints |->
                    IF e = "control"
                    THEN [Started(SessionSid) EXCEPT
                             !.last_received = PeerLoginAnswer(SessionSid, FALSE)]
                    ELSE Started(SessionSid)]
    /\ pkt0 = [e \in Endpoints |->
                    CASE e = "control" ->
                            [send_seq |-> (4 + m) % SeqMod,
                             tx_seq_buf |-> InitTracked(SessionSid, id)]
                      [] e = "serial" -> [NewPkt0 EXCEPT !.send_seq = n + 1]
                      [] OTHER -> NewPkt0]
    /\ pkt7 = [e \in Endpoints |->
                    IF e = "control"
                    THEN [NewPkt7 EXCEPT !.running = TRUE, !.send_task = "alive",
                                         !.send_seq = (@ + PingsPerReauth * m) % SeqMod,
                                         !.inner_send_seq = @ + PingsPerReauth * m]
                    ELSE NewPkt7]
    /\ ctl = [NewCtl EXCEPT !.auth_inner_send_seq = 3 + m, !.auth_id = PeerAuthId,
                            !.got_auth_id = TRUE, !.running = TRUE]
    /\ serial_send_seq = n + 1
    /\ wire = [e \in Endpoints |-> << >>]
    /\ pc = [t \in Procs |-> CASE t = "init" -> "done"
                               [] t = "main" -> "get"
                               [] t = "reauth" -> "sleep"
                               [] t = "run" -> "try"
                               [] t = "signal" -> "none"
                               [] OTHER -> "idle"]
    /\ start = [e \in Endpoints |-> [pc |-> "idle", attempt |-> 0]]
    /\ pending = [t \in Tasks |-> NoFrame]
    /\ earlier = [civ |-> n, reauth |-> m]
    /\ icom = NewController
    /\ call = NoCall
    /\ left = budget

\* The packet _send_request_serial_and_audio stored under sequence number 4
RequestTracked(sid, auth_start_id) ==
    [k \in 1..4 |->
        IF k < 4 THEN InitTracked(sid, auth_start_id)[k]
        ELSE SetSlice(SerialAudioReqPkt(sid, PeerSid, 3, PeerAuthId, PeerA8ReplyId),
                      6, 8, LE16(4))]

\* An endpoint that _handle_read has initialised and started again: a second
\* socket, a new sid, and a second reader besides the one that still runs
Restarted(sid) == [Started(sid) EXCEPT !.readers = 2, !.sockets = 2]

\* The session when the radio has answered auth 0x05, sent its a8 reply id
\* and answered the request with success, and _handle_read has run
\* serial.init() and audio.init(): the streams are marked opened
SessionOpened(id, budget) ==
    /\ stream = [e \in Endpoints |->
                    IF e = "control"
                    THEN [Started(SessionSid) EXCEPT
                             !.last_received = PeerProvAnswer(SessionSid, 1)]
                    ELSE Restarted(SessionSid + 1)]
    /\ pkt0 = [e \in Endpoints |->
                    IF e = "control"
                    THEN [send_seq |-> 5, tx_seq_buf |-> RequestTracked(SessionSid, id)]
                    ELSE NewPkt0]
    /\ pkt7 = [e \in Endpoints |->
                    IF e = "control"
                    THEN [NewPkt7 EXCEPT !.running = TRUE, !.send_task = "alive"]
                    ELSE NewPkt7]
    /\ ctl = [NewCtl EXCEPT !.auth_inner_send_seq = 4, !.auth_id = PeerAuthId,
                            !.got_auth_id = TRUE, !.auth_ok = TRUE,
                            !.a8_reply_id = PeerA8ReplyId, !.got_a8_reply_id = TRUE,
                            !.serial_and_audio_stream_opened = TRUE, !.running = TRUE]
    /\ serial_send_seq = 1
    /\ wire = [e \in Endpoints |-> << >>]
    /\ pc = [t \in Procs |-> CASE t = "init" -> "done"
                               [] t = "main" -> "get"
                               [] t = "reauth" -> "sleep"
                               [] t = "run" -> "try"
                               [] t = "signal" -> "none"
                               [] OTHER -> "idle"]
    /\ start = [e \in Endpoints |-> [pc |-> "idle", attempt |-> 0]]
    /\ pending = [t \in Tasks |-> NoFrame]
    /\ earlier = NoEarlier
    /\ icom = NewController
    /\ call = NoCall
    /\ left = budget

\* A long run of the reauth loop is followed with the budgets that let the
\* reauth interval pass, and the interrupt after a reauth interval is
\* followed for a long run only; the opened session is followed with the
\* budget that lets the radio send and the user interrupt
InitSession ==
    \E n \in EarlierSends, m \in EarlierReauths, id \in AuthStartIds,
       budget \in SessionBudgets :
        \/ /\ m > 0 => n = 0 /\ budget.reauth > 0
           /\ budget.signal > 0 => n = 0
           /\ (budget.signal > 0 /\ budget.reauth > 0) => m > 0
           /\ SessionStart(n, m, id, budget)
        \/ /\ n = 0 /\ m = 0 /\ budget.signal > 0 /\ budget.reauth = 0
           /\ SessionOpened(id, budget)

\* The session: the readers, the ping sender, the main loop with the
\* start() calls it makes, the reauth loop and the caller's CI-V commands
NextSession ==
    \/ \E e \in Endpoints : ReaderRecv(e)
    \/ \E e \in Endpoints : ProbeFire(e)
    \/ MainHandleRead
    \/ MainRequestSent
    \/ MainSerialStarted
    \/ MainAudioStarted
    \/ MainStartFailed
    \/ \E e \in Endpoints : StartStep(e)
    \/ ReauthFire
    \/ ReauthSent
    \/ CallerSendCiv
    \/ CallerCivSent
    \/ RunStopped
    \/ DeinitStep

SpecSession == InitSession /\ [][NextSession]_vars

\* The session with a teardown that goes on once it has started: every await
\* of ControlStream.deinit and StreamCommon.deinit completes (a UDP send, the
\* end of a cancelled reader, the sleep after the deauth packet), and main
\* returns when run has returned
SpecTeardown == SpecSession /\ WF_vars(DeinitStep)

\* The session, its teardown, and a second call of ControlStream.deinit
\* when the first has returned
NextDeinitTwice == NextSession \/ DeinitAgain

SpecDeinitTwice == InitSession /\ [][NextDeinitTwice]_vars

\* The shortest CI-V command, one byte, and the longest one a caller sends
ShortCivCommand == << 253 >>
LongCivCommand ==
    << 254, 254, 162, 224 >> \o [i \in 1..(MaxCivLen - 5) |-> 1 + (i % 251)] \o << 253 >>

\* The commands a caller passes to send_civ_command
CivCommands == { ShortCivCommand, CivCommand, LongCivCommand }

\* A caller that sends CI-V commands of several lengths, one after another,
\* on the serial endpoint of a session after init, while nothing else happens
InitCiv ==
    \E n \in EarlierSends, id \in AuthStartIds :
        SessionStart(n, 0, id,
                     [ peer |-> [e \in Endpoints |-> 0], timeouts |-> 0, probes |-> 0,
                       reauth |-> 0, civ |-> MaxCiv, signal |-> 0, rare |-> TRUE ])

NextCiv == (\E command \in CivCommands : CallerSend(command)) \/ CallerCivSent

SpecCiv == InitCiv /\ [][NextCiv]_vars

\* send_civ_command when the UDP send raises: _send logs and re-raises,
\* send_tracked_packet is left before its increment, and send_civ_command
\* catches the exception and returns False
CallerCivFailed ==
    /\ pc["caller"] = "sending"
    /\ pending["caller"] # NoFrame
    /\ pending' = [pending EXCEPT !["caller"] = NoFrame]
    /\ pc' = [pc EXCEPT !["caller"] = "idle"]
    /\ UNCHANGED << stream, pkt0, pkt7, ctl, serial_send_seq, wire, start, earlier, icom, call, left >>

\* A caller whose sends may fail
NextCivFails == NextCiv \/ CallerCivFailed

SpecCivFails == InitCiv /\ [][NextCivFails]_vars

(***************************************************************************)
(* Pure functions applied to drawn arguments                               *)
(***************************************************************************)

\* The variables of the stream client
streamVars == << stream, pkt0, pkt7, ctl, serial_send_seq, wire, pc, start, pending,
                 earlier, left >>

\* The environment of the stream client does nothing
NoBudget ==
    [ peer |-> [e \in Endpoints |-> 0], timeouts |-> 0, probes |-> 0, reauth |-> 0,
      civ |-> 0, signal |-> 0, rare |-> FALSE ]

\* Code points for passcode(): a control character, the ends of the table,
\* a letter, and characters past 126 that wrap into and past the table
PasscodeChars == { 31, 32, 97, 126, 221, 233, 254 }

\* The strings handed to passcode(): every string of at most MaxShortLen
\* of these characters, and longer ones up to and past sixteen characters
PasscodeStrings ==
    UNION { [1..n -> PasscodeChars] : n \in 0..MaxShortLen }
      \cup { [i \in 1..n |-> 96 + i] : n \in {15, 16, 17, MaxPasscodeLen} }

InitPasscode ==
    /\ StreamsConstructed
    /\ left = NoBudget
    /\ icom = NewController
    /\ \E s \in PasscodeStrings :
           call = [ fn |-> "passcode", arg |-> s, bcd |-> << >>, ret |-> << >>,
                    pc |-> "called" ]

\* result = passcode(s)
ApplyPasscode ==
    /\ call.fn = "passcode"
    /\ call.pc = "called"
    /\ call' = [call EXCEPT !.ret = passcode(call.arg), !.pc = "returned"]
    /\ UNCHANGED << streamVars, icom >>

NextPasscode == ApplyPasscode

SpecPasscode == InitPasscode /\ [][NextPasscode]_vars

\* Integers for _int_to_bcd, as pairs (hi, lo) standing for hi * 100000 + lo:
\* 0, one digit, carries between the ten digits, the amateur bands of the
\* radio, and 10^10 - 1
BcdHighs == { 0, 1, 1455, 4330, 12960, 10000, 99999 }
BcdLows == { 0, 9, 10, 99, 12345, 50000, 90909, 99999 }
BcdValues == { BigInt(hi, lo) : hi \in BcdHighs, lo \in BcdLows }

InitBcd ==
    /\ StreamsConstructed
    /\ left = NoBudget
    /\ icom = NewController
    /\ \E v \in BcdValues :
           call = [ fn |-> "bcd", arg |-> v, bcd |-> << >>, ret |-> << >>,
                    pc |-> "called" ]

\* freq_bcd = self._int_to_bcd(value, 5)
ApplyIntToBcd ==
    /\ call.fn = "bcd"
    /\ call.pc = "called"
    /\ call' = [call EXCEPT !.bcd = _int_to_bcd(call.arg, 5), !.pc = "encoded"]
    /\ UNCHANGED << streamVars, icom >>

\* frequency = self._bcd_to_int(freq_bcd)
ApplyBcdToInt ==
    /\ call.fn = "bcd"
    /\ call.pc = "encoded"
    /\ call' = [call EXCEPT !.ret = _bcd_to_int(call.bcd), !.pc = "returned"]
    /\ UNCHANGED << streamVars, icom >>

NextBcd == ApplyIntToBcd \/ ApplyBcdToInt

SpecBcd == InitBcd /\ [][NextBcd]_vars

(***************************************************************************)
(* ICOMIC9700Controller: connect, disconnect, get_frequency, set_frequency *)
(***************************************************************************)

\* What one exchange with the radio comes to: a datagram received
\* ("data"), socket.timeout after the send ("timeout"), or sendto raising
\* before anything is sent ("error")
Received(data) == [ kind |-> "data", data |-> data ]
TimedOut == [ kind |-> "timeout", data |-> << >> ]
SendFailed == [ kind |-> "error", data |-> << >> ]

\* The session id of the captured login packet
SessionId == << 219, 91, 40, 188, 47, 201, 254, 15 >>

\* Answers to the login packet: command type 1, command type 6, the
\* request echoed (type 4), a header cut short
LoginReplies ==
    { Received(<< 16, 0, 0, 0, 1, 0, 0, 0 >> \o SessionId),
      Received(<< 16, 0, 0, 0, 6, 0, 0, 0 >> \o SessionId),
      Received(<< 16, 0, 0, 0, 4, 0, 0, 0 >> \o SessionId),
      Received(<< 16, 0, 0, 0, 1, 0, 0, 0 >>),
      TimedOut, SendFailed }

\* Answers to the connect message: accepted, refused, cut short
ConnectReplies ==
    { Received(<< 0, 2, 0, 0 >>), Received(<< 0, 2, 1, 0 >>), Received(<< 0, 2, 0 >>),
      TimedOut, SendFailed }

\* Answers to the ready query: I-AM-READY behind a type, bare I-AM-READY,
\* the query echoed, a short datagram
ReadyReplies ==
    { Received(<< 0, 4 >> \o IAmReady), Received(IAmReady),
      Received(<< 0, 3 >> \o AreYouReady), Received(<< 0, 4, 73, 45, 65, 77 >>),
      TimedOut, SendFailed }

\* Frequencies in Hz: 145.5 MHz, 433 MHz and 1296 MHz
Frequencies == { BigInt(1455, 0), BigInt(4330, 0), BigInt(12960, 0) }

\* A CI-V frame from the radio to the controller in a 00 06 UDP frame
CivFromRadio(body) ==
    LET civ_packet == << 254, 254, CONTROLLER_ADDRESS, RADIO_ADDRESS >> \o body \o << 253 >>
    IN << 0, 6 >> \o BE16(Len(civ_packet)) \o civ_packet

\* Answers to a CI-V command: the acknowledgement FE FE E0 A2 FB FD, the
\* refusal FE FE E0 A2 FA FD, FB behind a command byte, a frequency
\* report, a datagram that is no CI-V frame
CivReplies ==
    { Received(CivFromRadio(<< 251 >>)),
      Received(CivFromRadio(<< 250 >>)),
      Received(CivFromRadio(<< CMD_SET_FREQ, 251 >>)),
      Received(CivFromRadio(<< CMD_READ_FREQ >> \o _int_to_bcd(BigInt(4330, 0), 5))),
      Received(<< 0, 5 >>),
      TimedOut, SendFailed }

\* disconnect() that leaves the serial socket and the state as they are
DisconnectedControlOnly(c) ==
    [c EXCEPT !.status.connected = FALSE,
              !.status.connection_state = "disconnected",
              !.control_socket = "none",
              !.audio_socket = "none"]

\* disconnect()
Disconnected(c) ==
    [c EXCEPT !._connection_state = "disconnected",
              !.status.connected = FALSE,
              !.status.connection_state = "disconnected",
              !.control_socket = "none",
              !.serial_socket = "none",
              !.audio_socket = "none"]

\* c after sendto(data) on each of the sockets socks, in order
SentOn(c, socks, data) ==
    [c EXCEPT !.sent = @ \o [i \in 1..Len(socks) |-> [sock |-> socks[i], data |-> data]]]

\* A public call returns ret
Returned(c, op, arg, reply, ret) ==
    [c EXCEPT !.pc = "idle",
              !.last = [ op |-> op, arg |-> arg, reply |-> reply.kind,
                         data |-> reply.data, ret |-> ret ]]

NoReply == [ kind |-> "none", data |-> << >> ]

\* _send_civ_command(command, data) with the radio's answer reply: the
\* controller afterwards and the value returned
_send_civ_command(c, command, data, reply) ==
    IF c.serial_socket = "none" \/ c._connection_state # "connected"
    THEN [ c |-> c, response |-> None ]
    ELSE IF reply.kind = "error"
    THEN [ c |-> c, response |-> None ]
    ELSE [ c |-> SentOn(c, << "serial" >>, _build_civ_command(command, data)),
           response |-> IF reply.kind = "timeout" THEN None
                        ELSE CivResponseData(reply.data) ]

\* get_frequency()
get_frequency(c, reply) ==
    LET r == _send_civ_command(c, CMD_READ_FREQ, << >>, reply)
    IN IF r.response # None /\ r.response # << >> /\ Len(r.response) >= 5
       THEN [ c |-> [r.c EXCEPT !.status.frequency = _bcd_to_int(Slice(r.response, 0, 5))],
              ret |-> "int" ]
       ELSE [ c |-> r.c, ret |-> "None" ]

\* set_frequency(frequency)
set_frequency(c, frequency, reply) ==
    LET freq_bcd == _int_to_bcd(frequency, 5)
        r == _send_civ_command(c, CMD_SET_FREQ, freq_bcd, reply)
    IN IF r.response = << 251 >>
       THEN [ c |-> [r.c EXCEPT !.status.frequency = frequency], ret |-> "True" ]
       ELSE [ c |-> r.c, ret |-> "False" ]

\* connect(): _create_sockets creates k of the three sockets before
\* socket.socket raises (k = 3: none raises); then LOGGING_IN
IcomConnectBegin(k) ==
    /\ icom.pc = "idle"
    /\ icom.calls > 0
    /\ LET c1 == [icom EXCEPT !.calls = @ - 1,
                              !.control_socket = IF k >= 1 THEN "open" ELSE @,
                              !.serial_socket = IF k >= 2 THEN "open" ELSE @,
                              !.audio_socket = IF k >= 3 THEN "open" ELSE @,
                              !.last = [ op |-> "connect", arg |-> BigInt(0, 0),
                                         reply |-> "none", data |-> << >>,
                                         ret |-> "none" ]]
       IN icom' = IF k < 3
                  THEN Returned(Disconnected(c1), "connect", BigInt(0, 0), NoReply, "False")
                  ELSE [c1 EXCEPT !._connection_state = "logging_in", !.pc = "login"]
    /\ UNCHANGED << streamVars, call >>

\* connect(): _login, then CONNECTING, or disconnect and return False
IcomLogin(reply) ==
    /\ icom.pc = "login"
    /\ LET c1 == IF reply.kind = "error" THEN icom
                 ELSE SentOn(icom, << "control" >>, _build_login_message)
       IN icom' = IF reply.kind = "data" /\ _validate_login_response(reply.data)
                  THEN [c1 EXCEPT !._connection_state = "connecting", !.pc = "negotiate"]
                  ELSE Returned(Disconnected(c1), "connect", BigInt(0, 0), NoReply, "False")
    /\ UNCHANGED << streamVars, call >>

\* connect(): _connect_negotiation, then READY_HANDSHAKE, or disconnect and
\* return False
IcomConnectNegotiation(reply) ==
    /\ icom.pc = "negotiate"
    /\ LET c1 == IF reply.kind = "error" THEN icom
                 ELSE SentOn(icom, << "control", "serial", "audio" >>,
                             _build_connect_message)
       IN icom' = IF reply.kind = "data" /\ _validate_connect_response(reply.data)
                  THEN [c1 EXCEPT !._connection_state = "ready_handshake", !.pc = "ready"]
                  ELSE Returned(Disconnected(c1), "connect", BigInt(0, 0), NoReply, "False")
    /\ UNCHANGED << streamVars, call >>

\* connect(): _ready_handshake, then CONNECTED, or disconnect and return
\* False
IcomReadyHandshake(reply) ==
    /\ icom.pc = "ready"
    /\ LET c1 == IF reply.kind = "error" THEN icom
                 ELSE SentOn(icom, << "audio" >>, _build_ready_query)
       IN icom' = IF reply.kind = "data" /\ _validate_ready_response(reply.data)
                  THEN [c1 EXCEPT !._connection_state = "connected",
                                  !.status.connected = TRUE,
                                  !.status.connection_state = "connected",
                                  !.pc = "test"]
                  ELSE Returned(Disconnected(c1), "connect", BigInt(0, 0), NoReply, "False")
    /\ UNCHANGED << streamVars, call >>

\* connect(): the CI-V test with get_frequency; True whatever it returns
IcomConnectTest(reply) ==
    /\ icom.pc = "test"
    /\ icom' = Returned(get_frequency(icom, reply).c, "connect", BigInt(0, 0),
                        NoReply, "True")
    /\ UNCHANGED << streamVars, call >>

\* A call of disconnect()
IcomDisconnect ==
    /\ icom.pc = "idle"
    /\ icom.calls > 0
    /\ icom' = Returned(Disconnected([icom EXCEPT !.calls = @ - 1]), "disconnect",
                        BigInt(0, 0), NoReply, "None")
    /\ UNCHANGED << streamVars, call >>

\* A call of get_frequency()
IcomGetFrequency(reply) ==
    /\ icom.pc = "idle"
    /\ icom.calls > 0
    /\ LET r == get_frequency([icom EXCEPT !.calls = @ - 1], reply)
       IN icom' = Returned(r.c, "get_frequency", BigInt(0, 0), reply, r.ret)
    /\ UNCHANGED << streamVars, call >>

\* A call of set_frequency(frequency)
IcomSetFrequency(frequency, reply) ==
    /\ icom.pc = "idle"
    /\ icom.calls > 0
    /\ LET r == set_frequency([icom EXCEPT !.calls = @ - 1], frequency, reply)
       IN icom' = Returned(r.c, "set_frequency", frequency, reply, r.ret)
    /\ UNCHANGED << streamVars, call >>

InitIcom ==
    /\ StreamsConstructed
    /\ left = NoBudget
    /\ icom = NewControllerWith(MaxIcomCalls)
    /\ call = NoCall

NextIcom ==
    \/ \E k \in 0..3 : IcomConnectBegin(k)
    \/ \E reply \in LoginReplies : IcomLogin(reply)
    \/ \E reply \in ConnectReplies : IcomConnectNegotiation(reply)
    \/ \E reply \in ReadyReplies : IcomReadyHandshake(reply)
    \/ \E reply \in CivReplies : IcomConnectTest(reply)
    \/ IcomDisconnect
    \/ \E reply \in CivReplies : IcomGetFrequency(reply)
    \/ \E frequency \in Frequencies, reply \in CivReplies :
           IcomSetFrequency(frequency, reply)

SpecIcom == InitIcom /\ [][NextIcom]_vars

(***************************************************************************)
(* Properties                                                              *)
(***************************************************************************)

Last(q) == q[Len(q)]

\* The type-0 sequence number of a frame: offset 6, little-endian
SeqAt6(f) == UnLE16(Slice(f, 6, 8))

\* The frames sent through send_tracked_packet are the login, auth, request
\* and CI-V packets: the only frames of the client longer than 21 bytes
IsTracked(f) == Len(f) > 21

\* The frames a step appends to the datagrams sent on e
Emitted(e) == SubSeq(wire'[e], Len(wire[e]) + 1, Len(wire'[e]))

\* A step only appends to the datagrams sent on e
Appends(e) ==
    /\ Len(wire'[e]) >= Len(wire[e])
    /\ SubSeq(wire'[e], 1, Len(wire[e])) = wire[e]

\* A step of the reader of e: it takes a datagram and no waiting call does
ReaderStep(e) ==
    /\ left'.peer[e] = left.peer[e] - 1
    /\ start' = start
    /\ pc' = pc

\* A retransmit request for one sequence number
IsRetransmitReq(f) == Len(f) = 16 /\ Slice(f, 0, 6) = << 16, 0, 0, 0, 1, 0 >>

\* The tracked frames sent on e so far, and those whose send is in progress
TrackedOn(e) ==
    { wire[e][i] : i \in { j \in 1..Len(wire[e]) : IsTracked(wire[e][j]) } }
    \cup { pending[t] : t \in { u \in Tasks : TaskEndpoint(u) = e /\ pending[u] # NoFrame } }

\* C1: tracked sends issued one after another on an endpoint carry
\* consecutive sequence numbers modulo 2^16 at offset 6.  On the serial
\* endpoint every tracked send is made by send_civ_command, one after
\* another: each send that completes has put exactly one frame on the wire,
\* the frame carries the send_seq k the handler had, and the handler goes on
\* with k+1 modulo 2^16 (65535 is followed by 0).
C1_ConsecutiveSeq ==
    [][ pkt0'["serial"].send_seq # pkt0["serial"].send_seq =>
            /\ wire'["serial"] = Append(wire["serial"], Last(wire'["serial"]))
            /\ IsTracked(Last(wire'["serial"]))
            /\ SeqAt6(Last(wire'["serial"])) = pkt0["serial"].send_seq
            /\ pkt0'["serial"].send_seq = (pkt0["serial"].send_seq + 1) % SeqMod
            /\ pkt0'["serial"].send_seq \in 0..(SeqMod - 1) ]_vars

\* Two CI-V sends follow each other on the serial endpoint, the first
\* carrying 65535 and the second 0
C1_Wrapped ==
    \E i \in 1..(Len(wire["serial"]) - 1) :
        /\ IsTracked(wire["serial"][i]) /\ IsTracked(wire["serial"][i + 1])
        /\ SeqAt6(wire["serial"][i]) = SeqMod - 1
        /\ SeqAt6(wire["serial"][i + 1]) = 0

\* C2: on one endpoint, no two distinct tracked frames are assigned the same
\* type-0 sequence number, even when the tracked sends of several tasks
\* interleave at the UDP send.
C2_NoDuplicateSeq ==
    \A e \in Endpoints : \A f, g \in TrackedOn(e) :
        f # g => SeqAt6(f) # SeqAt6(g)

\* C3: a retransmit request for a sequence number s under which tracked
\* frames were sent makes the endpoint send exactly those bytes, twice.
C3_RetransmitReplaysSent ==
    [][ \A e \in Endpoints :
            LET data == stream'[e].last_received
                sent == { f \in TrackedOn(e) : f \notin { pending[t] : t \in Tasks }
                                               /\ SeqAt6(f) = SeqAt6(data) }
            IN (ReaderStep(e) /\ IsRetransmitReq(data) /\ sent # {}) =>
                   \A f \in sent : wire'[e] = wire[e] \o << f, f >> ]_vars

\* The idle frame that answers a request for a sequence number s that the
\* endpoint e does not hold
MissIdle(e, s) ==
    << 16, 0, 0, 0, 0, 0 >> \o LE16(s) \o BE32(stream[e].local_sid) \o BE32(stream[e].remote_sid)

\* C4: a retransmit request for a sequence number s that is not in the
\* retransmit buffer is not fatal: the endpoint sends exactly two untracked
\* 16-byte idle frames carrying s at offset 6 and its local and remote
\* session ids, the reader keeps running and the request is forwarded.
C4_RetransmitMiss ==
    [][ \A e \in Endpoints :
            LET data == stream'[e].last_received
                s == SeqAt6(data)
            IN (ReaderStep(e) /\ IsRetransmitReq(data) /\ BufGet(e, s) = NoFrame) =>
                   /\ wire'[e] = wire[e] \o << MissIdle(e, s), MissIdle(e, s) >>
                   /\ pkt0' = pkt0
                   /\ stream'[e].running /\ stream'[e].readers = stream[e].readers
                   /\ stream'[e].conn = "open"
                   /\ stream'[e].read_chan = Append(stream[e].read_chan, data) ]_vars

\* After CI-V sends on the serial endpoint, a request for the sequence
\* number after the last one sent has been answered with two idle frames
C4_MissAnswered ==
    LET w == wire["serial"]
        s == pkt0["serial"].send_seq
    IN /\ DOMAIN pkt0["serial"].tx_seq_buf # {}
       /\ pending["caller"] = NoFrame
       /\ stream["serial"].last_received = PeerRetransmitReq(stream["serial"].local_sid, s)
       /\ Len(w) >= 3
       /\ w[Len(w)] = MissIdle("serial", s)
       /\ w[Len(w) - 1] = MissIdle("serial", s)
       /\ IsTracked(w[Len(w) - 2])

\* The 144-byte serial/audio request
IsRequest(f) == Len(f) = 144

\* C5: the 144-byte serial/audio request is never sent on the control
\* endpoint unless auth_ok and got_a8_reply_id are both true at the moment of
\* sending: when it is handed to send_tracked_packet, and when it leaves.
C5_RequestNeedsAuthAndA8 ==
    [][ /\ (IsRequest(pending'["main"]) /\ pending["main"] = NoFrame) =>
                (ctl'.auth_ok /\ ctl'.got_a8_reply_id)
        /\ (\E i \in 1..Len(Emitted("control")) : IsRequest(Emitted("control")[i])) =>
                (ctl.auth_ok /\ ctl.got_a8_reply_id) ]_vars

\* The request has been sent on the control endpoint
C5_RequestSent ==
    /\ \E i \in 1..Len(wire["control"]) : IsRequest(wire["control"][i])
    /\ ctl.auth_ok /\ ctl.got_a8_reply_id

\* C6: in one session the 144-byte serial/audio request is emitted exactly
\* once: whatever the radio sends on the control endpoint (repeated auth
\* 0x05 answers, answers to the periodic reauth, repeated a8 answers), no
\* second request is handed to send_tracked_packet.
C6_RequestOnce ==
    Cardinality({ f \in TrackedOn("control") : IsRequest(f) }) <= 1

\* A ping of the client: a type-7 frame with 0 at offset 16
IsProbe(f) == is_pkt7(f) /\ f[17] = 0

\* C7: no ping is emitted on any endpoint before authentication has
\* succeeded on the control endpoint, that is before auth_ok is set.
C7_NoProbeBeforeAuth ==
    \A e \in Endpoints : \A i \in 1..Len(wire[e]) :
        IsProbe(wire[e][i]) => ctl.auth_ok

\* f answers the type-7 request req: a type-7 frame with 1 at offset 16, the
\* bytes 17..21 of the request and the request's sequence number at offset 6
IsReplyTo(f, req) ==
    /\ is_pkt7(f)
    /\ f[17] = 1
    /\ Slice(f, 17, 21) = Slice(req, 17, 21)
    /\ Slice(f, 6, 8) = Slice(req, 6, 8)

\* C8: every type-7 request (21 bytes, 0 at offset 16) read by the reader of
\* an endpoint, on any of the three endpoints and in any state of the
\* session, is answered at once with a type-7 reply that echoes bytes 17..21
\* and carries the request's sequence number at offset 6.
C8_PingAnswered ==
    [][ \A e \in Endpoints :
            LET data == stream'[e].last_received
            IN (ReaderStep(e) /\ is_pkt7(data) /\ data[17] = 0) =>
                   /\ Appends(e)
                   /\ Len(Emitted(e)) = 1
                   /\ IsReplyTo(Emitted(e)[1], data) ]_vars

\* The connection answer: 16 bytes beginning 10 00 00 00 04 00
IsPkt4(f) == Len(f) = 16 /\ Slice(f, 0, 6) = << 16, 0, 0, 0, 4, 0 >>

\* C9: an endpoint sets got_remote_sid and remote_sid only from a received
\* 16-byte frame that begins 10 00 00 00 04 00, taking bytes 8..12
\* big-endian; no other frame and no timeout makes got_remote_sid true.
C9_RemoteSidOnlyFromPkt4 ==
    [][ \A e \in Endpoints :
            LET data == stream'[e].last_received
            IN (\/ stream'[e].got_remote_sid /\ ~stream[e].got_remote_sid
                \/ stream'[e].remote_sid # stream[e].remote_sid) =>
                   /\ left'.timeouts = left.timeouts
                   /\ IsPkt4(data)
                   /\ stream'[e].remote_sid = UnBE32(Slice(data, 8, 12)) ]_vars

\* C10: StreamCommon.start returns, with the reader started, only if after
\* pkt6 was sent a frame was received whose type field (offset 4,
\* little-endian 16 bits) is 6.
C10_StartNeedsPkt6 ==
    [][ \A e \in Endpoints :
            LET data == stream'[e].last_received
            IN (start'[e].pc = "done" /\ start[e].pc = "wait6") =>
                   /\ left'.timeouts = left.timeouts
                   /\ Len(data) >= 6
                   /\ UnLE16(Slice(data, 4, 6)) = 6 ]_vars

\* The connection request of _send_pkt3 and the login packet of _send_pkt_login
IsPkt3(f) == Len(f) = 16 /\ Slice(f, 0, 6) = << 16, 0, 0, 0, 3, 0 >>
IsLogin(f) == Len(f) = 128

\* The connection requests in q, counted
CountPkt3(q) == Cardinality({ i \in 1..Len(q) : IsPkt3(q[i]) })

\* The login packet has been handed to the control socket or sent on it
LoginHandedOver ==
    \/ \E i \in 1..Len(wire["control"]) : IsLogin(wire["control"][i])
    \/ \E t \in Tasks : IsLogin(pending[t])

\* C11: StreamCommon.start makes at most 5 handshake attempts.  While init
\* runs, an attempt that fails is followed by another one (pkt3 again, the
\* attempt number one higher) while fewer than 5 have been made; when the
\* fifth fails start raises.  No endpoint ever sends more than 5 times three
\* connection requests, and once a start has raised, init does not go on:
\* run leaves its try statement by the except branch and ends with exit code
\* 1, and no login packet is handed to the socket.
C11_AtMostFiveAttempts ==
    [][ \A e \in Endpoints :
          /\ (start[e].pc \in {"wait4", "wait6"} /\ start'[e].pc \in {"pkt3", "failed"}) =>
                IF start[e].attempt < 4
                THEN start'[e] = [pc |-> "pkt3", attempt |-> start[e].attempt + 1]
                ELSE start'[e] = [pc |-> "failed", attempt |-> 4]
          /\ start'[e].attempt \in 0..4
          /\ CountPkt3(wire'[e]) <= 5 * 3
          /\ start[e].pc = "failed" =>
                /\ start'[e].pc = "failed"
                /\ pc["init"] = StartLabel(e) => pc'["init"] \in {StartLabel(e), "failed"}
                /\ pc'["main"] = "none"
                /\ pc'["run"] \in {"try", "failed", "exit1"}
                /\ pc["run"] # "try" => pc'["run"] # "try"
                /\ ~LoginHandedOver' ]_vars

\* C11 happens: the fifth attempt of a start has failed after 15 connection
\* requests, and the run has ended with exit code 1
C11_FifthAttemptFailed ==
    \E e \in Endpoints :
        /\ start[e] = [pc |-> "failed", attempt |-> 4]
        /\ CountPkt3(wire[e]) = 15
        /\ pc["run"] = "exit1"

\* The ready signal of _send_pkt6
IsPkt6(f) == Len(f) = 16 /\ Slice(f, 0, 6) = << 16, 0, 0, 0, 6, 0 >>

\* C12: the 128-byte login packet is sent on the control endpoint only after
\* the three endpoints have completed their handshake.  When the login
\* packet is handed to the control socket, start() has returned on every
\* endpoint: its connection request and its ready signal have been sent, its
\* reader runs and got_remote_sid is true; and got_remote_sid is true on
\* every endpoint whenever the login packet has been handed over.
C12_LoginAfterHandshakes ==
    [][ /\ (LoginHandedOver' /\ ~LoginHandedOver) =>
              \A e \in Endpoints :
                  /\ start'[e].pc = "idle"
                  /\ stream'[e].running
                  /\ stream'[e].readers = 1
                  /\ \E i \in 1..Len(wire'[e]) : IsPkt3(wire'[e][i])
                  /\ \E i \in 1..Len(wire'[e]) : IsPkt6(wire'[e][i])
        /\ LoginHandedOver' => \A e \in Endpoints : stream'[e].got_remote_sid ]_vars

\* C12 happens: the login packet has been sent on the control endpoint
C12_LoginSent ==
    /\ \E i \in 1..Len(wire["control"]) : IsLogin(wire["control"][i])
    /\ \A e \in Endpoints : stream[e].got_remote_sid

\* The login answer of the radio, refusing or accepting the credentials, and
\* the 64-byte auth packet of _send_pkt_auth
IsLoginAnswer(f) == Len(f) = 96 /\ HasPrefix(f, << 96, 0, 0, 0, 0, 0, 1, 0 >>)
IsRefusal(f) == IsLoginAnswer(f) /\ Slice(f, 48, 52) = << 255, 255, 255, 254 >>
IsAcceptance(f) == IsLoginAnswer(f) /\ Slice(f, 48, 52) # << 255, 255, 255, 254 >>
IsAuth(f) == Len(f) = 64

\* A refusal, or an acceptance, has been received on the control endpoint
\* while init ran: it is the last one received or the reader has queued it
ReceivedRefusal ==
    \/ IsRefusal(stream["control"].last_received)
    \/ \E i \in 1..Len(stream["control"].read_chan) : IsRefusal(stream["control"].read_chan[i])
ReceivedAcceptance ==
    \/ IsAcceptance(stream["control"].last_received)
    \/ \E i \in 1..Len(stream["control"].read_chan) :
          IsAcceptance(stream["control"].read_chan[i])

\* An auth packet has been handed to the control socket or sent on it
AuthHandedOver ==
    \/ \E i \in 1..Len(wire["control"]) : IsAuth(wire["control"][i])
    \/ \E t \in Tasks : IsAuth(pending[t])

\* C13: when the radio's answer to the login packet carries ff ff ff fe at
\* bytes 48..52 (and the radio has sent no answer without it), init fails,
\* the ping sender is not started, no 64-byte auth packet is handed to the
\* socket at any later point, teardown included, and the run ends with exit
\* code 1.
C13_RefusedLoginFails ==
    (ReceivedRefusal /\ ~ReceivedAcceptance) =>
        /\ pkt7["control"].send_task = "none"
        /\ ~pkt7["control"].running
        /\ ~ctl.got_auth_id
        /\ ~AuthHandedOver
        /\ pc["run"] \in {"try", "failed", "exit1"}
        /\ pc["run"] = "try" => pc["init"] \in {"expect_login", "failed"}

\* The datagrams received on the control endpoint that are at hand: the last
\* one received and those the reader has queued
ReceivedOnControl ==
    { stream["control"].last_received }
    \cup { stream["control"].read_chan[i] : i \in 1..Len(stream["control"].read_chan) }

\* C14: got_auth_id becomes true only after a 96-byte frame beginning
\* 60 00 00 00 00 00 01 00 without the bad-credentials marker has been
\* received on the control endpoint, auth_id is then the 6 bytes at 26..32
\* of that frame, and it stays what it is from then on.
C14_AuthIdFromLoginAnswer ==
    [][ /\ (ctl'.got_auth_id /\ ~ctl.got_auth_id) =>
              \E f \in ReceivedOnControl' :
                  /\ IsAcceptance(f)
                  /\ Len(ctl'.auth_id) = 6
                  /\ ctl'.auth_id = Slice(f, 26, 32)
        /\ ctl.got_auth_id => ctl'.got_auth_id /\ ctl'.auth_id = ctl.auth_id ]_vars

\* The tasks with a receive call outstanding on the socket of endpoint e:
\* the reader task start() created for it, the handshake wait of start,
\* and init's wait for the login answer
Receivers(e) ==
    (IF stream[e].running /\ stream[e].conn = "open" /\ stream[e].readers > 0 THEN 1 ELSE 0)
    + (IF start[e].pc \in {"wait4", "wait6"} THEN 1 ELSE 0)
    + (IF e = "control" /\ pc["init"] = "expect_login" THEN 1 ELSE 0)

\* C17: at any time at most one task is waiting to receive on the socket of
\* an endpoint: once its reader runs, neither the login-answer wait nor a
\* handshake wait reads from that socket.
C17_OneReceiver ==
    \A e \in Endpoints : Receivers(e) <= 1

\* C15: serial_and_audio_stream_opened is set only after the 144-byte
\* request has been sent on the control endpoint, hence with auth_ok and
\* got_a8_reply_id true.  (The flag is set by the handling of a 144-byte
\* answer with byte 96 = 1 and by nothing else.)
C15_OpenedAfterRequest ==
    [][ (ctl'.serial_and_audio_stream_opened /\ ~ctl.serial_and_audio_stream_opened) =>
            /\ \E i \in 1..Len(wire["control"]) : IsRequest(wire["control"][i])
            /\ ctl.auth_ok
            /\ ctl.got_a8_reply_id ]_vars

\* C16: once init has returned, the serial and the audio endpoint keep the
\* socket, the local sid, the remote sid and the reader they have, also
\* when the successful 144-byte answer is handled: no step opens a socket
\* on them, changes a sid, adds a reader or sends a connection request or a
\* ready signal on them.
C16_StreamsKept ==
    [][ \A e \in {"serial", "audio"} :
            /\ stream'[e].sockets <= stream[e].sockets
            /\ stream'[e].local_sid = stream[e].local_sid
            /\ stream'[e].remote_sid = stream[e].remote_sid
            /\ stream'[e].readers <= stream[e].readers
            /\ \A i \in 1..Len(Emitted(e)) : ~IsPkt3(Emitted(e)[i]) /\ ~IsPkt6(Emitted(e)[i]) ]_vars

\* The inner sequence number of an auth-related packet: offset 23,
\* little-endian
InnerSeq(f) == UnLE16(Slice(f, 23, 25))

\* C18: the inner sequence number at offset 23 tells the auth-related
\* packets of a session apart: no two different packets handed to the
\* control socket (request, periodic auth, deauth) carry the same one,
\* however the main loop, the reauth loop and teardown interleave.
C18_InnerSeqUnique ==
    \A f \in TrackedOn("control"), g \in TrackedOn("control") :
        f # g => InnerSeq(f) # InnerSeq(g)

\* C19: the inner sequence counter always lies in 0..65535.
C19_InnerSeqSixteenBits ==
    ctl.auth_inner_send_seq \in 0..65535

\* The disconnect frame of the protocol: type 5 at offset 4
IsPkt5(f) == Len(f) = 16 /\ Slice(f, 0, 6) = << 16, 0, 0, 0, 5, 0 >>
CountPkt5(q) == Cardinality({ i \in 1..Len(q) : IsPkt5(q[i]) })

\* The deauth packet: a 64-byte auth packet with magic 0x01 at offset 21
IsDeauth(f) == Len(f) = 64 /\ f[22] = 1

\* C20: when the run has ended after a teardown of the opened session, one
\* deauth packet has been sent on the control endpoint (copies sent again
\* on the radio's request apart) and after it the control endpoint's pkt5,
\* exactly two pkt5 frames have been sent on each of the three endpoints,
\* every socket in use is closed, and the exit code is 0.
C20_CleanShutdown ==
    (pc["init"] = "exited" /\ ctl.serial_and_audio_stream_opened) =>
        /\ pc["run"] = "exit0"
        /\ \A e \in Endpoints : CountPkt5(wire[e]) = 2 /\ stream[e].conn = "none"
        /\ Cardinality({ f \in TrackedOn("control") : IsDeauth(f) }) = 1
        /\ \E i \in 1..Len(wire["control"]) :
              /\ IsDeauth(wire["control"][i])
              /\ \A j \in 1..Len(wire["control"]) : IsPkt5(wire["control"][j]) => i < j

\* A task that does not exist or has ended
TaskEnded(label) == label \in {"none", "ended", "cancelled"}

\* Every socket is closed and every background task has ended
TornDown ==
    /\ \A e \in Endpoints :
          /\ stream[e].sockets = 0
          /\ stream[e].readers = 0
          /\ pkt7[e].send_task # "alive"
    /\ TaskEnded(pc["main"])
    /\ TaskEnded(pc["reauth"])

C22_DeinitIdempotent ==
    [][ (pc["init"] = "closed" /\ pc'["init"] \in {"closed_again", "raised_again"}) =>
            /\ wire' = wire
            /\ pc'["init"] = "closed_again"
            /\ stream' = stream
            /\ pkt0' = pkt0
            /\ pkt7' = pkt7
            /\ ctl' = ctl
            /\ serial_send_seq' = serial_send_seq ]_vars

\* C23: when SIGINT or SIGTERM is delivered after ShackMate.run has
\* installed its handlers, also while ControlStream.init is still in
\* progress, teardown eventually runs and run returns.
C23_SignalEndsRun == (pc["signal"] = "handled") ~> (pc["run"] \in {"exit0", "exit1"})

\* The pings of the client among the frames q
CountProbes(q) == Cardinality({ i \in 1..Len(q) : IsProbe(q[i]) })

\* A type-7 reply of the radio: 1 at offset 16
IsPingReply(f) == is_pkt7(f) /\ f[17] = 1

\* Three pings have been sent on the control endpoint and the datagram last
\* received there is not a reply to a ping
ProbesUnanswered ==
    /\ CountProbes(wire["control"]) >= 3
    /\ ~IsPingReply(stream["control"].last_received)

\* C24: when three consecutive pings sent on the control endpoint get no
\* reply, the session reports the peer as lost and goes on to teardown.
C24_PeerLost == ProbesUnanswered ~> (pc["run"] # "try")

\* The flags of the session that are set
FlagsSet ==
    { << "got_remote_sid", e >> : e \in { x \in Endpoints : stream[x].got_remote_sid } }
    \cup (IF ctl.got_auth_id THEN { << "got_auth_id" >> } ELSE {})
    \cup (IF ctl.auth_ok THEN { << "auth_ok" >> } ELSE {})
    \cup (IF ctl.got_a8_reply_id THEN { << "got_a8_reply_id" >> } ELSE {})
    \cup (IF ctl.serial_and_audio_stream_opened
          THEN { << "serial_and_audio_stream_opened" >> } ELSE {})

\* C25: each of the flags got_remote_sid (per endpoint), got_auth_id,
\* auth_ok, got_a8_reply_id and serial_and_audio_stream_opened, once true,
\* stays true in every later state until teardown: no step taken before
\* teardown clears a flag that is set.
C25_FlagsStaySet ==
    [][ pc["run"] = "try" => FlagsSet \subseteq FlagsSet' ]_vars

\* The radio has answered the request, both streams have gone through their
\* handshake again, and every flag is set
C25_AllFlagsSet ==
    /\ \A e \in Endpoints : stream[e].got_remote_sid
    /\ ctl.got_auth_id /\ ctl.auth_ok /\ ctl.got_a8_reply_id
    /\ ctl.serial_and_audio_stream_opened
    /\ \E i \in 1..Len(wire["control"]) : IsRequest(wire["control"][i])
    /\ CountPkt3(wire["serial"]) = 3
    /\ CountPkt3(wire["audio"]) = 3

\* C26: send_civ_command transmits no frame on the serial endpoint while the
\* endpoint's got_remote_sid is false, that is between the opening of the
\* socket and the completion of the handshake.
C26_NoCivBeforeHandshake ==
    [][ \A i \in 1..Len(Emitted("serial")) :
            IsTracked(Emitted("serial")[i]) => stream["serial"].got_remote_sid ]_vars

\* A type-7 frame: 21 bytes, of which bytes 1..6 are 00 00 00 07 00
IsType7(f) == Len(f) = 21 /\ SubSeq(f, 2, 6) = << 0, 0, 0, 7, 0 >>

\* The frames in the inbound queue of e
Queued(e) == { stream[e].read_chan[i] : i \in 1..Len(stream[e].read_chan) }

\* C27: the reader of an endpoint never puts a type-7 frame into the
\* endpoint's inbound queue, whether or not the ping sender of the endpoint
\* is running: no queue ever holds a type-7 frame.
C27_Type7NotQueued == \A e \in Endpoints : \A f \in Queued(e) : ~IsType7(f)

\* The reader of the serial endpoint, whose ping sender does not run, has
\* read a type-7 reply: nothing was queued and nothing was sent
C27_Type7Read ==
    /\ IsType7(stream["serial"].last_received)
    /\ stream["serial"].last_received[17] = 1
    /\ ~pkt7["serial"].running
    /\ stream["serial"].readers > 0
    /\ stream["serial"].read_chan = << >>
    /\ wire["serial"] = << >>

\* C28: a type-0 retransmit request read by an endpoint's reader is served
\* in-line and is not put into the endpoint's inbound queue; every received
\* frame that is neither a type-7 frame nor a retransmit request is put
\* into the queue unchanged.
C28_RetransmitReqNotQueued ==
    [][ \A e \in Endpoints :
            ReaderStep(e) =>
                LET f == stream'[e].last_received IN
                IF IsRetransmitReq(f)
                THEN /\ stream'[e].read_chan = stream[e].read_chan
                     /\ Emitted(e) # << >>
                ELSE IF IsType7(f) THEN TRUE
                ELSE stream'[e].read_chan = Append(stream[e].read_chan, f) ]_vars

\* C29: no inbound frame on the control endpoint, whatever its length and
\* content, stops the session's processing: handling it raises no error
\* that ends the reader or the main loop, and frames that arrive later are
\* still processed.  While run is in its loop the control reader and the
\* main loop have not ended.
C29_FramesNeverStop ==
    (pc["run"] = "try" /\ pc["init"] = "done") =>
        /\ pc["main"] # "ended"
        /\ stream["control"].readers > 0

\* A civ-envelope: a frame longer than its 21-byte header, with c1 at
\* offset 16 and the length of its payload at offset 17
IsCivEnvelope(f) == Len(f) > 21 /\ f[17] = 193 /\ f[18] = Len(f) - 21

\* C30: every civ-envelope received on the serial endpoint is delivered to
\* the caller as the CI-V payload alone, the bytes from offset 21 on, in
\* order and unchanged, with the 21-byte header stripped.  What the reader
\* of the serial endpoint hands on for an envelope is its payload.
C30_CivPayloadDelivered ==
    [][ ReaderStep("serial") /\ IsCivEnvelope(stream'["serial"].last_received) =>
            stream'["serial"].read_chan =
                Append(stream["serial"].read_chan,
                       SliceFrom(stream'["serial"].last_received, 21)) ]_vars

\* C31: for every CI-V byte string of length N with 1 <= N <= 232,
\* send_civ_command emits a frame of length 21 + N whose first byte is
\* 0x15 + N, with the serial endpoint's local and remote session ids
\* big-endian at offsets 8 and 12, 0xC1 at offset 16, N at offset 17, the
\* wrapper's own send_seq little-endian at 19..21 and the CI-V bytes
\* unchanged from offset 21; the wrapper's send_seq advances by one (modulo
\* 2^16) per successful send.
C31_CivEnvelope ==
    [][ pc["caller"] = "sending" /\ pc'["caller"] = "idle" =>
            \E command \in CivCommands :
                LET f == Last(wire'["serial"])
                    N == Len(command)
                IN /\ N >= 1 /\ N <= MaxCivLen
                   /\ wire'["serial"] = Append(wire["serial"], f)
                   /\ Len(f) = 21 + N
                   /\ f[1] = 21 + N
                   /\ UnBE32(Slice(f, 8, 12)) = stream["serial"].local_sid
                   /\ UnBE32(Slice(f, 12, 16)) = stream["serial"].remote_sid
                   /\ f[17] = 193
                   /\ f[18] = N
                   /\ UnLE16(Slice(f, 19, 21)) = serial_send_seq
                   /\ SliceFrom(f, 21) = command
                   /\ serial_send_seq' = (serial_send_seq + 1) % SeqMod ]_vars

\* The caller has sent a one-byte command, the longest command and the
\* six-byte command, the last one after the wrapper's send_seq wrapped to 0
C31_AllLengthsSent ==
    /\ Len(wire["serial"]) = 3
    /\ SliceFrom(wire["serial"][1], 21) = ShortCivCommand
    /\ SliceFrom(wire["serial"][2], 21) = LongCivCommand
    /\ SliceFrom(wire["serial"][3], 21) = CivCommand
    /\ UnLE16(Slice(wire["serial"][3], 19, 21)) = 0
    /\ serial_send_seq = 1

\* The sequence numbers under which the sends made before the modelled
\* window stored a packet on e: the k-th CI-V send under k, the k-th
\* periodic auth packet under 3 + k modulo 2^16
StoredEarlier(e, seq) ==
    \/ e = "serial" /\ seq >= 1 /\ seq <= earlier.civ
    \/ e = "control" /\ ((seq + SeqMod - 4) % SeqMod) + 1 <= earlier.reauth

\* The number of earlier sends on e
EarlierCount(e) ==
    IF e = "serial" THEN earlier.civ ELSE IF e = "control" THEN earlier.reauth ELSE 0

\* len(self.tx_seq_buf) on endpoint e
BufSize(e) ==
    EarlierCount(e)
    + Cardinality({ k \in DOMAIN pkt0[e].tx_seq_buf : ~StoredEarlier(e, k) })

\* C33: the retransmit buffer of an endpoint is bounded: the number of
\* entries it holds never exceeds a fixed cap, and once the window exceeds
\* the cap the oldest entry is evicted.  The code names no cap; the only
\* one it can keep is 2^16, the number of sequence numbers.  With that cap:
\* a store into a buffer of 2^16 entries leaves it at 2^16 entries, and the
\* entry it replaces is the oldest one: it was stored before the modelled
\* window (under 1, 2, ... in this order), and every entry stored before it
\* has been replaced in the window.
C33_BufferBounded ==
    [][ \A e \in Endpoints :
            /\ BufSize(e)' <= SeqMod
            /\ (BufSize(e) = SeqMod /\ pkt0'[e].tx_seq_buf # pkt0[e].tx_seq_buf) =>
                   LET k == pkt0[e].send_seq
                       recent == { SeqAt6(f) : f \in TrackedOn(e) }
                   IN /\ BufSize(e)' = SeqMod
                      /\ k \notin recent
                      /\ \A j \in 1..(k - 1) : j \in recent ]_vars

\* A ping of the client: a type-7 frame with 0 at offset 16
IsPing(f) == IsType7(f) /\ f[17] = 0

\* C34: the type-7 and type-0 sequence spaces of an endpoint are
\* independent.  A step that sends a ping or a type-7 reply changes neither
\* the type-0 send_seq nor the retransmit buffer; a step of a tracked send
\* (the store, or the send and the increment) does not change the type-7
\* send_seq; and a step that answers a type-7 request of the radio sends the
\* reply under the sequence number received and leaves the type-7 send_seq
\* as it was, while a ping advances it by one.
C34_SeqSpacesIndependent ==
    [][ \A e \in Endpoints :
            /\ (\E i \in 1..Len(Emitted(e)) : IsType7(Emitted(e)[i])) =>
                   pkt0'[e] = pkt0[e]
            /\ pkt0'[e] # pkt0[e] => pkt7'[e] = pkt7[e]
            /\ \A i \in 1..Len(Emitted(e)) :
                   LET f == Emitted(e)[i] IN
                   /\ (IsType7(f) /\ f[17] = 1) =>
                          /\ ReaderStep(e)
                          /\ SeqAt6(f) = SeqAt6(stream'[e].last_received)
                          /\ pkt7'[e] = pkt7[e]
                   /\ IsPing(f) =>
                          /\ SeqAt6(f) = pkt7[e].send_seq
                          /\ pkt7'[e].send_seq = (pkt7[e].send_seq + 1) % SeqMod ]_vars

\* On the control endpoint a ping, a reply to a ping of the radio and a
\* tracked frame have been sent, and the two handlers are at different
\* sequence numbers
C34_AllKindsSent ==
    LET w == wire["control"] IN
    /\ \E i \in 1..Len(w) : IsPing(w[i])
    /\ \E i \in 1..Len(w) : IsType7(w[i]) /\ w[i][17] = 1 /\ SeqAt6(w[i]) = PeerPingSeq
    /\ \E i \in 1..Len(w) : IsTracked(w[i])
    /\ pkt7["control"].send_seq # pkt0["control"].send_seq

\* An idle frame: 16 bytes of type 0
IsIdle(f) == Len(f) = 16 /\ Slice(f, 0, 6) = << 16, 0, 0, 0, 0, 0 >>

\* C35: serving a retransmit request, whether the requested sequence is in
\* the buffer or not, leaves the endpoint's type-0 send_seq and its
\* retransmit buffer unchanged: neither the replayed frames nor the
\* replacement idle frames are tracked.  The step of the reader that reads
\* the request sends two frames and changes no field of the type-0 handler.
C35_ServingIsUntracked ==
    [][ \A e \in Endpoints :
            (ReaderStep(e) /\ IsRetransmitReq(stream'[e].last_received)) =>
                /\ Len(Emitted(e)) = 2
                /\ pkt0'[e].send_seq = pkt0[e].send_seq
                /\ pkt0'[e].tx_seq_buf = pkt0[e].tx_seq_buf ]_vars

\* On the control endpoint a request for a stored sequence number has been
\* served with the stored packet, sent twice, and a request for the
\* sequence number not yet used with two idle frames that carry it
C35_BothServed ==
    LET w == wire["control"] IN
    /\ \E i \in 1..(Len(w) - 1) :
           /\ IsTracked(w[i]) /\ w[i + 1] = w[i]
           /\ w[i] = BufGet("control", SeqAt6(w[i]))
    /\ \E i \in 1..(Len(w) - 1) :
           /\ IsIdle(w[i]) /\ w[i + 1] = w[i]
           /\ SeqAt6(w[i]) = pkt0["control"].send_seq
    /\ IsRetransmitReq(stream["control"].last_received)

\* send_disconnect of endpoint e has sent its two frames: deinit of e has
\* passed its sends, and the frame it builds is among the datagrams sent
DisconnectSent(e) ==
    /\ pc["init"] \in
          CASE e = "serial" -> { "close_serial", "deinit_audio", "close_audio", "deauth",
                                 "deauth_sending", "raised", "deinit_control",
                                 "close_control", "closed", "exited" }
            [] e = "audio" -> { "close_audio", "deauth", "deauth_sending", "raised",
                                "deinit_control", "close_control", "closed", "exited" }
            [] OTHER -> { "close_control", "closed", "exited" }
    /\ \E i \in 1..Len(wire[e]) :
           wire[e][i] = DisconnectPkt(stream[e].local_sid, stream[e].remote_sid)

\* C36: during teardown, once an endpoint has sent its first pkt5
\* (disconnect) frame, no frame other than the second pkt5 is sent on that
\* endpoint: no pkt7 probe from the still-scheduled prober, no pkt7 reply or
\* retransmission from the reader, and no auth frame.  Once send_disconnect
\* of an endpoint has sent its two frames, no step sends on that endpoint.
C36_NothingAfterPkt5 ==
    [][ \A e \in Endpoints : DisconnectSent(e) => wire'[e] = wire[e] ]_vars

\* C37: if the UDP send inside a tracked send fails, the endpoint's type-0
\* send_seq and its retransmit buffer are as they were before the call, so
\* every buffer entry holds bytes that were actually transmitted under that
\* sequence number.  Every entry of the serial endpoint's buffer is a frame
\* that was sent, or one whose send is in progress, and it is stored under
\* the sequence number it carries.
C37_BufferHoldsSentFrames ==
    \A k \in DOMAIN pkt0["serial"].tx_seq_buf :
        /\ pkt0["serial"].tx_seq_buf[k] \in TrackedOn("serial")
        /\ SeqAt6(pkt0["serial"].tx_seq_buf[k]) = k


\* The value the table gives for key p; 0 where the table has no key p
TableByte(p) == IF p \in 32..126 THEN PASSCODE_SEQUENCE[p - 31] ELSE 0

\* p for the character at index i (from 0) of s
PasscodeKey(s, i) ==
    LET p == s[i + 1] + i IN IF p > 126 THEN 32 + (p % 127) ELSE p

\* C32 (as amended): passcode(s) has exactly 16 bytes; for each
\* i < min(len(s), 16) byte i is PASSCODE_SEQUENCE[p] when the table has
\* the key p and zero when it has not; every byte at an index >= len(s) is
\* zero
C32_PasscodeReference ==
    (call.fn = "passcode" /\ call.pc = "returned") =>
        /\ Len(call.ret) = 16
        /\ \A i \in 0..15 :
               IF i < Len(call.arg)
               THEN call.ret[i + 1] = TableByte(PasscodeKey(call.arg, i))
               ELSE call.ret[i + 1] = 0

\* C32 as stated: byte i is PASSCODE_SEQUENCE[p], an entry of the table
C32_ByteIsTableEntry ==
    (call.fn = "passcode" /\ call.pc = "returned") =>
        /\ Len(call.ret) = 16
        /\ \A i \in 0..15 :
               IF i < Len(call.arg)
               THEN /\ PasscodeKey(call.arg, i) \in 32..126
                    /\ call.ret[i + 1] = PASSCODE_SEQUENCE[PasscodeKey(call.arg, i) - 31]
               ELSE call.ret[i + 1] = 0

\* passcode has returned for a string with a character that wraps past the
\* table and one that wraps into it
C32_KeyOutsideTable ==
    /\ call.fn = "passcode" /\ call.pc = "returned"
    /\ \E i \in 0..(Len(call.arg) - 1) :
           call.arg[i + 1] + i > 126 /\ PasscodeKey(call.arg, i) \notin 32..126
    /\ \E i \in 0..(Len(call.arg) - 1) :
           call.arg[i + 1] + i > 126 /\ PasscodeKey(call.arg, i) \in 32..126


\* C40: for every integer v with 0 <= v < 10^10, _int_to_bcd(v, 5) has
\* exactly 5 bytes, each with both nibbles in 0..9, and _bcd_to_int of it
\* is v again
C40_BcdRoundTrip ==
    /\ (call.fn = "bcd" /\ call.pc \in {"encoded", "returned"}) =>
           /\ Len(call.bcd) = 5
           /\ \A i \in 1..5 : /\ call.bcd[i] \in 0..255
                              /\ call.bcd[i] \div 16 \in 0..9
                              /\ call.bcd[i] % 16 \in 0..9
    /\ (call.fn = "bcd" /\ call.pc = "returned") => call.ret = call.arg

\* 9 999 999 999 has made the round trip through 99 99 99 99 99
C40_TenDigitsBack ==
    /\ call.fn = "bcd" /\ call.pc = "returned"
    /\ call.arg = BigInt(99999, 99999)
    /\ call.bcd = << 153, 153, 153, 153, 153 >>
    /\ call.ret = call.arg


\* A well-formed CI-V acknowledgement: a 00 06 UDP frame wrapping
\* FE FE <to> <from> FB FD
IsCivAck(data) ==
    /\ Len(data) = 10
    /\ Slice(data, 0, 4) = << 0, 6, 0, 6 >>
    /\ Slice(data, 4, 6) = << 254, 254 >>
    /\ Slice(data, 8, 10) = << 251, 253 >>

\* The step is a call of set_frequency whose command went out
SetFrequencySent ==
    /\ icom.pc = "idle" /\ icom'.pc = "idle"
    /\ icom'.calls = icom.calls - 1
    /\ icom'.last.op = "set_frequency"
    /\ Len(icom'.sent) = Len(icom.sent) + 1

\* C38: set_frequency(f) returns True and sets status.frequency to f
\* whenever the radio's reply to the set command is a well-formed CI-V
\* acknowledgement; on any other reply or a timeout it returns False and
\* leaves status.frequency unchanged
C38_SetFrequencyFollowsAck ==
    [][ SetFrequencySent =>
            IF icom'.last.reply = "data" /\ IsCivAck(icom'.last.data)
            THEN /\ icom'.last.ret = "True"
                 /\ icom'.status.frequency = icom'.last.arg
            ELSE /\ icom'.last.ret = "False"
                 /\ icom'.status.frequency = icom.status.frequency ]_vars

\* connect() has returned
ConnectReturned(ret) ==
    icom.pc = "idle" /\ icom.last.op = "connect" /\ icom.last.ret = ret

\* The datagram is a CI-V command: the 00 06 frame of _build_civ_command
IsCivCommand(d) ==
    /\ Len(d.data) >= 10
    /\ Slice(d.data, 0, 2) = << 0, 6 >>
    /\ Slice(d.data, 4, 6) = << 254, 254 >>

\* C39: connect() returns True only in state CONNECTED with
\* status.connected true; whenever connect() returns False the controller
\* is in state DISCONNECTED with status.connected false and all three
\* sockets closed and cleared; and no CI-V command is sent on the serial
\* socket unless the state is CONNECTED
C39_ConnectOutcome ==
    /\ [](ConnectReturned("True") =>
              /\ icom._connection_state = "connected"
              /\ icom.status.connected)
    /\ [](ConnectReturned("False") =>
              /\ icom._connection_state = "disconnected"
              /\ icom.status.connection_state = "disconnected"
              /\ ~icom.status.connected
              /\ icom.control_socket = "none"
              /\ icom.serial_socket = "none"
              /\ icom.audio_socket = "none")
    /\ [][ \A i \in (Len(icom.sent) + 1)..Len(icom'.sent) :
               IsCivCommand(icom'.sent[i]) =>
                   /\ icom'.sent[i].sock = "serial"
                   /\ icom.serial_socket = "open"
                   /\ icom._connection_state = "connected"
                   /\ icom'._connection_state = "connected" ]_vars

\* connect() has returned False after the ready handshake failed, on a
\* controller whose earlier connect() succeeded and sent its CI-V test
C39_FailedAfterConnected ==
    /\ ConnectReturned("False")
    /\ \E i, j \in 1..Len(icom.sent) :
           /\ i < j
           /\ IsCivCommand(icom.sent[i])
           /\ icom.sent[j] = [sock |-> "audio", data |-> _build_ready_query]
           /\ \A k \in (j + 1)..Len(icom.sent) : ~IsCivCommand(icom.sent[k])
    /\ icom.sent[Len(icom.sent)] = [sock |-> "audio", data |-> _build_ready_query]

=============================================================================
